---- MODULE Spec2Model ----
(***************************************************************************)
(* A model of the GitHub issues sync plugin: the retrying GraphQL client   *)
(* (src/src/github/client.ts), the image round-trip pipeline               *)
(* (files/images.ts), the issue-file codec and archival                    *)
(* (files/issue-files.ts) and the pull / push / cleanup operations         *)
(* (src/src/sync/sync.ts).                                                 *)
(*                                                                         *)
(* Three specifications share the module:                                  *)
(*   SpecRetry   one call of graphqlRequest against an arbitrary remote    *)
(*   SpecImages  processImagesOnPush / restoreLocalImages on bounded bodies*)
(*   Spec        pull, push and archive over a small vault                 *)
(* Each one holds the variables of the other two at their idle values.     *)
(***************************************************************************)
EXTENDS Integers, Sequences, FiniteSets, TLC

VARIABLES
    \* ---- graphqlRequest (client.ts) ----
    gpc,          \* position in graphqlRequest: "idle", "request", "backoff", "exhausted", "returned", "thrown"
    attempt,      \* the loop counter `attempt`
    lastError,    \* the local `lastError`
    delays,       \* the arguments of every sleep(delay) call so far, in order
    answers,      \* what the remote answered on every attempt so far, in order
    outcome,      \* the payload returned or the error thrown by the call
    \* ---- the image pipeline (images.ts) ----
    ipc,          \* "idle", "ready", "pushed" (after processImagesOnPush), "restored"
    imgBody,      \* the body handed to processImagesOnPush
    imgContent,   \* the content processImagesOnPush returned (body before any push)
    imgRestored,  \* restoreLocalImages(imgContent)
    uploadedCount,\* the uploadedCount of the last processImagesOnPush
    skippedCount, \* the skippedCount of the last processImagesOnPush
    puts,         \* every PUT issued to the asset repository so far, in order
    probes,       \* how many GET probes of the asset repository were issued so far
    pushes,       \* how many times processImagesOnPush has run
    \* ---- shared by the image pipeline and the vault ----
    hosting,      \* settings.imageHostingRepo is set
    assets,       \* the blobs of the asset repository: the file names under images/
    \* ---- the vault and the remote project (sync.ts, issue-files.ts) ----
    remote,       \* title and body of every issue on the remote
    files,        \* the markdown files of the issues folder and of its archive
    folders,      \* which of the folders "issues" and "archive" exist
    children,     \* the files of the issues folder in listing order
    index,        \* the sections of the index file (NoIndex: no index file)
    updates,      \* the files whose push went through to updateIssue's end, in order
    auth,         \* authState: whether there is an access token, and the login
    onlyMyIssues, \* settings.onlyMyIssues
    lastRun,      \* the last entry point run: its argument, the error it threw, the calls it made
    \* ---- generateIssueContent / parseFrontmatter on one issue (issue-files.ts) ----
    cpc,          \* position: "idle", "issue", "encoded", "decoded"
    codecIssue,   \* the GitHubIssue handed to generateIssueContent
    codecContent, \* the content generateIssueContent returned
    codecParsed,  \* what parseFrontmatter returned for that content
    \* ---- fetchProjectMetadata and fetchProjectIssues in syncProject (client.ts, sync.ts) ----
    mpc,          \* position: "idle", "project", "metadata", "paging", "issues", "thrown"
    metaResponse, \* what the metadata query answers, the iteration field aside
    metaItems,    \* the item nodes the items query answers
    metaStatus,   \* metadata.statusOptions (NoStatusField: no metadata returned)
    metaThrown,   \* the message of the error fetchProjectMetadata threw ("": none)
    metaField,    \* the iteration field of the project (NoIterationField: it has none)
    metaNow,      \* `now`, in days
    metaCurrent,  \* metadata.currentIteration (NoIteration: null)
    metaFilterId, \* the currentIterationId handed to fetchProjectIssues ("": null)
    metaIssues,   \* allIssues: the issues fetchProjectIssues has collected
    metaCursor,   \* the cursor of fetchProjectIssues (0: null)
    metaRequests, \* the cursors of the items requests issued so far, in order
    \* ---- generateIndexContent (issue-files.ts) ----
    bpc,          \* position: "idle", "issues", "generated"
    boardIssues,  \* the issues handed to generateIndexContent
    boardOptions, \* the names of the status options handed to it
    boardContent, \* the sections it returned
    \* ---- the commands of the plugin and the operations they start (main.ts) ----
    flows,        \* the operation each command run is in, and where it is suspended
    flowFile,     \* the body of the file of the issue in the issues folder
    flowRemote,   \* the body of the issue on GitHub
    \* ---- parseFrontmatter and extractBody on the text of a file (issue-files.ts) ----
    tpc,          \* position: "idle", "text", "read"
    textContent,  \* the content of the file, piece by piece
    textUrl,      \* the url parseFrontmatter took from it ("": it returned null)
    textBody      \* what extractBody returned for it

retryVars == <<gpc, attempt, lastError, delays, answers, outcome>>

imageVars ==
    <<ipc, imgBody, imgContent, imgRestored, uploadedCount, skippedCount, puts, probes, pushes>>

sharedVars == <<hosting, assets>>

vaultVars == <<remote, files, folders, children, index, updates, auth, onlyMyIssues, lastRun>>

codecVars == <<cpc, codecIssue, codecContent, codecParsed>>

metaVars ==
    <<mpc, metaResponse, metaItems, metaStatus, metaThrown, metaField, metaNow, metaCurrent,
      metaFilterId, metaIssues, metaCursor, metaRequests>>

boardVars == <<bpc, boardIssues, boardOptions, boardContent>>

flowVars == <<flows, flowFile, flowRemote>>

textVars == <<tpc, textContent, textUrl, textBody>>

pureVars == <<codecVars, metaVars, boardVars, flowVars, textVars>>

vars == <<retryVars, imageVars, sharedVars, vaultVars, pureVars>>

(***************************************************************************)
(* Text.  A message is a sequence of words; s.includes(p) is "p occurs as  *)
(* a contiguous run of words of s".                                        *)
(***************************************************************************)
Includes(s, p) ==
    \E i \in 1..(Len(s) - Len(p) + 1) : SubSeq(s, i, i + Len(p) - 1) = p

RECURSIVE JoinWith(_, _)
\* Array.prototype.join: the elements of a list of messages with sep between them
JoinWith(list, sep) ==
    IF list = <<>> THEN <<>>
    ELSE IF Len(list) = 1 THEN list[1]
    ELSE list[1] \o sep \o JoinWith(Tail(list), sep)

RECURSIVE Pow2(_)
\* Math.pow(2, n)
Pow2(n) == IF n = 0 THEN 1 ELSE 2 * Pow2(n - 1)

(***************************************************************************)
(* graphqlRequest                                                          *)
(***************************************************************************)
MAX_RETRIES == 5
INITIAL_DELAY_MS == 1000
RETRYABLE_STATUS_CODES == {502, 503, 504, 429}

NullError == [isNull |-> TRUE, message |-> <<>>]
Error(m) == [isNull |-> FALSE, message |-> m]

\* HTTP statuses the remote may answer with
Statuses == {200, 429, 502, 503, 504, 404, 500}

\* what the transport puts in the error it throws for a status (requestUrl
\* rejects with "Request failed, status N")
StatusMessage(s) == <<"Request", "failed,", "status", ToString(s)>>

\* messages of errors the transport throws without any HTTP status
TransportMessages ==
    { <<"net::ERR", "timeout">>,
      <<"network", "unreachable">>,
      <<"ECONNREFUSED">> }

\* non-empty errors lists of a 200 response
ErrorLists ==
    { <<<<"Could", "not", "resolve", "to", "a", "ProjectV2">>>>,
      <<<<"Something", "went", "wrong:", "timeout">>>>,
      <<<<"Could", "not", "resolve", "to", "a", "ProjectV2">>,
        <<"Field", "network", "does", "not", "exist">>>> }

\* everything one await requestUrl(...) can do
Answers ==
    { [kind |-> "response", status |-> s, errors |-> <<>>] : s \in Statuses }
        \cup { [kind |-> "response", status |-> 200, errors |-> e] : e \in ErrorLists }
        \cup { [kind |-> "throw", status |-> s, errors |-> <<>>] : s \in Statuses \ {200} }
        \cup { [kind |-> "throw", status |-> 0, errors |-> <<m>>] : m \in TransportMessages }

\* the message of the error thrown by the transport for answer a
ThrownMessage(a) == IF a.status = 0 THEN a.errors[1] ELSE StatusMessage(a.status)

\* isRetryable matching any message that names a status
IsRetryable_AnyStatus(message) ==
    \/ Includes(message, <<"status">>)
    \/ Includes(message, <<"timeout">>)
    \/ Includes(message, <<"network">>)

\* the isRetryable test of the catch block
IsRetryable(message) ==
    \/ Includes(message, <<"status", "502">>)
    \/ Includes(message, <<"status", "503">>)
    \/ Includes(message, <<"status", "504">>)
    \/ Includes(message, <<"status", "429">>)
    \/ Includes(message, <<"timeout">>)
    \/ Includes(message, <<"network">>)

\* the error raised inside the try block for answer a, NullError when the
\* block raises nothing (client.ts 82-118)
TryBlockError(a) ==
    IF a.kind = "throw" THEN Error(ThrownMessage(a))
    ELSE IF a.status = 200
        THEN IF Len(a.errors) > 0
                THEN Error(<<"GraphQL", "errors:">> \o JoinWith(a.errors, <<",">>))
                ELSE NullError
    ELSE IF a.status \in RETRYABLE_STATUS_CODES THEN NullError
    ELSE Error(<<"GraphQL", "request", "failed:", ToString(a.status)>>)

\* one pass through the try/catch of the loop body for answer a at loop
\* counter n: what is thrown out of the function (NullError: nothing), the
\* new lastError, and the payload returned (TRUE: data.data was returned)
LoopBody(a, n, last) ==
    LET raised == TryBlockError(a) IN
    IF raised.isNull
        THEN IF a.status = 200
                THEN [returned |-> TRUE, thrown |-> NullError, lastError |-> last]
                ELSE [returned |-> FALSE, thrown |-> NullError,
                      lastError |-> Error(StatusMessage(a.status))]
        ELSE IF IsRetryable(raised.message) /\ n < MAX_RETRIES - 1
                THEN [returned |-> FALSE, thrown |-> NullError, lastError |-> raised]
                ELSE [returned |-> FALSE, thrown |-> raised, lastError |-> last]

\* a backoff growing linearly instead of doubling
BackoffDelay_Linear(n) == INITIAL_DELAY_MS * (n + 1)

\* the delay slept after the failed attempt n
BackoffDelay(n) == INITIAL_DELAY_MS * Pow2(n)

\* a loop that sleeps after every failed attempt, the last one included
SleepsAfter_Always(n) == n < MAX_RETRIES

\* whether the loop sleeps after attempt n
SleepsAfter(n) == n < MAX_RETRIES - 1

RetryIdle ==
    /\ gpc = "idle"
    /\ attempt = 0
    /\ lastError = NullError
    /\ delays = <<>>
    /\ answers = <<>>
    /\ outcome = NullError

RetryStart ==
    /\ gpc = "request"
    /\ attempt = 0
    /\ lastError = NullError
    /\ delays = <<>>
    /\ answers = <<>>
    /\ outcome = NullError

\* one attempt: await requestUrl and the try/catch around it
Attempt ==
    /\ gpc = "request"
    /\ attempt < MAX_RETRIES
    /\ \E a \in Answers :
        LET r == LoopBody(a, attempt, lastError) IN
        /\ answers' = Append(answers, a)
        /\ lastError' = r.lastError
        /\ IF r.returned
              THEN gpc' = "returned" /\ outcome' = NullError
              ELSE IF ~r.thrown.isNull
                      THEN gpc' = "thrown" /\ outcome' = r.thrown
                      ELSE gpc' = "backoff" /\ outcome' = outcome
    /\ UNCHANGED <<attempt, delays>>

\* the tail of the loop body: the backoff sleep, then attempt++
Backoff ==
    /\ gpc = "backoff"
    /\ delays' = IF SleepsAfter(attempt)
                    THEN Append(delays, BackoffDelay(attempt))
                    ELSE delays
    /\ attempt' = attempt + 1
    /\ gpc' = IF attempt + 1 < MAX_RETRIES THEN "request" ELSE "exhausted"
    /\ UNCHANGED <<lastError, answers, outcome>>

\* after the loop: throw lastError || new Error("Request failed after retries")
Exhausted ==
    /\ gpc = "exhausted"
    /\ outcome' = IF lastError.isNull
                     THEN Error(<<"Request", "failed", "after", "retries">>)
                     ELSE lastError
    /\ gpc' = "thrown"
    /\ UNCHANGED <<attempt, lastError, delays, answers>>

(***************************************************************************)
(* Bodies.  A body is a sequence of tokens, the pieces the image regular   *)
(* expressions cut a markdown text into; a reference string (a vault path, *)
(* an alt text, a URL) is a sequence of atoms.                             *)
(*   wiki    ![[path]] or ![[path|alt]]     (WIKILINK_IMAGE_REGEX)         *)
(*   md      ![alt](path)                   (MARKDOWN_IMAGE_REGEX)         *)
(*   marker  <!-- obsidian-local: path -->                                 *)
(*   text    anything else; NL is the text "\n"                            *)
(***************************************************************************)
Wiki(p) == [k |-> "wiki", path |-> p, hasAlt |-> FALSE, alt |-> <<>>]
WikiAlt(p, a) == [k |-> "wiki", path |-> p, hasAlt |-> TRUE, alt |-> a]
Md(a, p) == [k |-> "md", path |-> p, hasAlt |-> TRUE, alt |-> a]
Marker(p) == [k |-> "marker", path |-> p, hasAlt |-> FALSE, alt |-> <<>>]
Text(w) == [k |-> "text", path |-> <<w>>, hasAlt |-> FALSE, alt |-> <<>>]
NL == Text("\n")

\* String.prototype.trim on a sequence of atoms
RECURSIVE TrimLeft(_)
TrimLeft(s) == IF s # <<>> /\ Head(s) = " " THEN TrimLeft(Tail(s)) ELSE s

RECURSIVE TrimRight(_)
TrimRight(s) ==
    IF s # <<>> /\ s[Len(s)] = " " THEN TrimRight(SubSeq(s, 1, Len(s) - 1)) ELSE s

Trim(s) == TrimRight(TrimLeft(s))

\* the index of the last occurrence of atom c in s, 0 when there is none
RECURSIVE LastIndexOf(_, _)
LastIndexOf(s, c) ==
    IF s = <<>> THEN 0
    ELSE IF s[Len(s)] = c THEN Len(s)
    ELSE LastIndexOf(SubSeq(s, 1, Len(s) - 1), c)

\* s.split(c).pop()
AfterLast(s, c) == SubSeq(s, LastIndexOf(s, c) + 1, Len(s))

\* String.prototype.toLowerCase on one atom
LowerAtom(x) ==
    CASE x = "PNG" -> "png"
      [] x = "JPG" -> "jpg"
      [] x = "Alice" -> "alice"
      [] x = "ALICE" -> "alice"
      [] OTHER -> x

ToLowerCase(s) == [i \in 1..Len(s) |-> LowerAtom(s[i])]

\* images.ts isLocalPath
IsLocalPath(p) == p = <<>> \/ p[1] \notin {"http://", "https://", "data:"}

\* images.ts getExtension
GetExtension(filename) ==
    LET ext == AfterLast(ToLowerCase(filename), ".") IN
    IF ext = <<>> THEN <<"png">> ELSE ext

(***************************************************************************)
(* The image files of the vault: TFile.path and the bytes readBinary gives,*)
(* in the order app.vault.getFiles() lists them.                           *)
(***************************************************************************)
VaultImages ==
    << [path |-> <<"a", ".", "png">>, bytes |-> "x1"],
       [path |-> <<"img", "/", "c", ".", "png">>, bytes |-> "x1"],
       [path |-> <<"b", ".", "jpg">>, bytes |-> "x2"],
       [path |-> <<"b", ".", "jpeg">>, bytes |-> "x2"],
       [path |-> <<"a", ">", "b", ".", "png">>, bytes |-> "x3"] >>

NoFile == [path |-> <<>>, bytes |-> ""]

\* TFile.name and TFile.basename
FileName(f) == AfterLast(f.path, "/")
FileBasename(f) ==
    LET n == FileName(f) IN
    IF LastIndexOf(n, ".") > 1 THEN SubSeq(n, 1, LastIndexOf(n, ".") - 1) ELSE n

\* app.vault.getAbstractFileByPath restricted to files
FileAt(p) ==
    IF \E i \in 1..Len(VaultImages) : VaultImages[i].path = p
        THEN VaultImages[CHOOSE i \in 1..Len(VaultImages) : VaultImages[i].path = p]
        ELSE NoFile

ImageExtensions == <<"png", "jpg", "jpeg", "gif", "webp", "svg">>

\* a lookup that falls back to the first file of the vault instead of null
FindImageFile_AnyFile(imagePath) == VaultImages[1]

\* images.ts findImageFile: the exact path, the path plus a common
\* extension when it has none, then the first vault file of that name
FindImageFile(imagePath) ==
    LET withExt == { i \in 1..Len(ImageExtensions) :
                        FileAt(imagePath \o <<".", ImageExtensions[i]>>) # NoFile }
        filename == IF AfterLast(imagePath, "/") = <<>> THEN imagePath
                    ELSE AfterLast(imagePath, "/")
        byName == { i \in 1..Len(VaultImages) :
                        \/ FileName(VaultImages[i]) = filename
                        \/ FileBasename(VaultImages[i]) = filename }
        Min(S) == CHOOSE x \in S : \A y \in S : x <= y
    IN
    IF FileAt(imagePath) # NoFile THEN FileAt(imagePath)
    ELSE IF "." \notin { imagePath[i] : i \in 1..Len(imagePath) } /\ withExt # {}
        THEN FileAt(imagePath \o <<".", ImageExtensions[Min(withExt)]>>)
    ELSE IF byName # {} THEN VaultImages[Min(byName)]
    ELSE NoFile

\* images.ts hashArrayBuffer followed by substring(0, 16): the digest is
\* kept abstract, one name per content, distinct contents get distinct names
HashArrayBuffer(bytes) ==
    CASE bytes = "x1" -> "d1"
      [] bytes = "x2" -> "d2"
      [] bytes = "x3" -> "d3"
      [] OTHER -> "d0"

\* the name of the blob in the asset repository (images.ts 527-529)
RemoteFilename(file) ==
    <<HashArrayBuffer(file.bytes), ".">> \o GetExtension(FileName(file))

\* the raw-view URL of a blob (images.ts 503 and 539)
RawUrl(filename) ==
    <<"https://", "github.com/o/images/blob/main/images/">> \o filename \o <<"?raw=true">>

(***************************************************************************)
(* The network around one processLocalImage call.                          *)
(*   ok          every call answers as the asset repository's state says   *)
(*   readFails   app.vault.readBinary throws                               *)
(*   probeFails  the GET probe throws or answers something other than 200  *)
(*   putFails    the PUT is rejected                                       *)
(***************************************************************************)
NetOutcomes == {"ok", "readFails", "probeFails", "putFails"}

NoPut == <<>>

\* images.ts imageExistsInRepo: 200 exactly when the blob is there and
\* the probe goes through
ImageExistsInRepo(filename, net, repo) == filename \in repo /\ net # "probeFails"

\* a processLocalImage that hands out the url although the PUT was rejected
ProcessLocalImage_UrlOnFailure(imagePath, net, repo) ==
    LET file == FindImageFile(imagePath)
        filename == RemoteFilename(file)
    IN
    IF file = NoFile
        THEN [url |-> <<>>, put |-> NoPut, bytes |-> "", repo |-> repo, probed |-> FALSE]
    ELSE IF net = "readFails"
        THEN [url |-> <<>>, put |-> NoPut, bytes |-> "", repo |-> repo, probed |-> FALSE]
    ELSE IF ImageExistsInRepo(filename, net, repo)
        THEN [url |-> RawUrl(filename), put |-> NoPut, bytes |-> "", repo |-> repo,
              probed |-> TRUE]
    ELSE [url |-> RawUrl(filename), put |-> filename, bytes |-> file.bytes,
          repo |-> IF net = "putFails" THEN repo ELSE repo \cup {filename}, probed |-> TRUE]

\* images.ts processLocalImage.  url is <<>> for null; put is the filename
\* a PUT was issued for (NoPut: none); repo is the asset repository after;
\* probed tells whether imageExistsInRepo was called
ProcessLocalImage(imagePath, net, repo) ==
    LET file == FindImageFile(imagePath)
        filename == RemoteFilename(file)
        \* a PUT creates the blob; GitHub rejects a PUT without sha for a
        \* blob that is already there
        putOk == net # "putFails" /\ filename \notin repo
    IN
    IF file = NoFile
        THEN [url |-> <<>>, put |-> NoPut, bytes |-> "", repo |-> repo, probed |-> FALSE]
    ELSE IF net = "readFails"
        THEN [url |-> <<>>, put |-> NoPut, bytes |-> "", repo |-> repo, probed |-> FALSE]
    ELSE IF ImageExistsInRepo(filename, net, repo)
        THEN [url |-> RawUrl(filename), put |-> NoPut, bytes |-> "", repo |-> repo,
              probed |-> TRUE]
    ELSE IF putOk
        THEN [url |-> RawUrl(filename), put |-> filename, bytes |-> file.bytes,
              repo |-> repo \cup {filename}, probed |-> TRUE]
    ELSE [url |-> <<>>, put |-> filename, bytes |-> file.bytes, repo |-> repo, probed |-> TRUE]

\* String.prototype.replace(full, ...) with a string pattern: the first
\* token equal to full is replaced by the tokens new
ReplaceFirst(content, full, new) ==
    IF \E i \in 1..Len(content) : content[i] = full
        THEN LET i == CHOOSE j \in 1..Len(content) :
                        content[j] = full /\ \A h \in 1..(j - 1) : content[h] # full
             IN SubSeq(content, 1, i - 1) \o new \o SubSeq(content, i + 1, Len(content))
        ELSE content

\* the matches of the two loops of processImagesOnPush over the original
\* content: every wiki token, then every md token with a local target
WikiMatches(content) == SelectSeq(content, LAMBDA t : t.k = "wiki")
MdMatches(content) == SelectSeq(content, LAMBDA t : t.k = "md" /\ IsLocalPath(t.path))
ImageMatches(content) == WikiMatches(content) \o MdMatches(content)

\* `<!-- obsidian-local: ${path} -->\n![${alt}](${rawUrl})`, with
\* alt = match[2] || match[1] for a wiki match (images.ts 585, 597, 630)
Replacement(m, rawUrl) ==
    << Marker(m.path), NL,
       Md(IF m.k = "md" THEN m.alt
          ELSE IF m.hasAlt /\ m.alt # <<>> THEN m.alt ELSE m.path, rawUrl) >>

\* the loops of processImagesOnPush from match i on; nets[i] is the network
\* around the i-th processLocalImage call
RECURSIVE PushLoop(_, _, _, _)
PushLoop(matches, nets, i, acc) ==
    IF i > Len(matches) THEN acc
    ELSE LET r == ProcessLocalImage(matches[i].path, nets[i], acc.repo)
             found == r.url # <<>>
         IN PushLoop(matches, nets, i + 1,
                [content |-> IF found
                                THEN ReplaceFirst(acc.content, matches[i], Replacement(matches[i], r.url))
                                ELSE acc.content,
                 uploadedCount |-> acc.uploadedCount + (IF found THEN 1 ELSE 0),
                 skippedCount |-> acc.skippedCount + (IF found THEN 0 ELSE 1),
                 repo |-> r.repo,
                 probes |-> acc.probes + (IF r.probed THEN 1 ELSE 0),
                 puts |-> IF r.put = NoPut THEN acc.puts
                          ELSE Append(acc.puts, [filename |-> r.put, bytes |-> r.bytes,
                                                 ok |-> found,
                                                 probed |-> nets[i] # "probeFails"])])

\* images.ts processImagesOnPush; configured is settings.imageHostingRepo # ""
ProcessImagesOnPush_NoConfigCheck(content, configured, nets, repo) ==
    PushLoop(ImageMatches(content), nets, 1,
        [content |-> content, uploadedCount |-> 0, skippedCount |-> 0,
         repo |-> repo, probes |-> 0, puts |-> <<>>])

ProcessImagesOnPush(content, configured, nets, repo) ==
    IF ~configured
        THEN [content |-> content, uploadedCount |-> 0, skippedCount |-> 0,
              repo |-> repo, probes |-> 0, puts |-> <<>>]
        ELSE PushLoop(ImageMatches(content), nets, 1,
                [content |-> content, uploadedCount |-> 0, skippedCount |-> 0,
                 repo |-> repo, probes |-> 0, puts |-> <<>>])

\* whether LOCAL_IMAGE_COMMENT_REGEX matches at token i: a marker whose
\* path has no ">" (the capture is [^>]+), a newline, an image
MarkerPairAt_MarkerAlone(content, i) ==
    /\ content[i].k = "marker"
    /\ content[i].path # <<>>
    /\ ">" \notin { content[i].path[j] : j \in 1..Len(content[i].path) }

MarkerPairAt(content, i) ==
    /\ i + 2 <= Len(content)
    /\ content[i].k = "marker"
    /\ content[i].path # <<>>
    /\ ">" \notin { content[i].path[j] : j \in 1..Len(content[i].path) }
    /\ content[i + 1] = NL
    /\ content[i + 2].k = "md"

\* `![[${localPath.trim()}]]`
RestoredEmbed(localPath) == Wiki(Trim(localPath))

\* images.ts restoreLocalImages
RECURSIVE RestoreFrom(_, _)
RestoreFrom(content, i) ==
    IF i > Len(content) THEN <<>>
    ELSE IF MarkerPairAt(content, i)
        THEN <<RestoredEmbed(content[i].path)>> \o RestoreFrom(content, i + 3)
        ELSE <<content[i]>> \o RestoreFrom(content, i + 1)

RestoreLocalImages(content) == RestoreFrom(content, 1)

\* images.ts hasLocalImages
HasLocalImages(content) ==
    \E i \in 1..Len(content) :
        \/ content[i].k = "wiki"
        \/ content[i].k = "md" /\ IsLocalPath(content[i].path)

(***************************************************************************)
(* processImagesOnPush and restoreLocalImages on bounded bodies            *)
(***************************************************************************)
MaxBodyItems == 2
MaxPushes == 2

pA == <<"a", ".", "png">>
pC == <<"c", ".", "png">>
pJpg == <<"b", ".", "jpg">>
pJpeg == <<"b", ".", "jpeg">>
pGt == <<"a", ">", "b", ".", "png">>
pPadded == <<" ", "a", ".", "png", " ">>
pMissing == <<"missing", ".", "png">>
RemoteLogo == <<"https://", "example.com/logo.png">>

\* the pieces bodies are made of: local embeds (plain, with alt text, found
\* by exact path or by name, two names for the same bytes, a ">" in the
\* name, unresolvable), markdown images (local and remote), text, and a
\* marker pair as an earlier push (or an edit on the remote side, here with
\* extra blanks around the path) left it, and a marker no image follows
BodyItems ==
    { <<Wiki(pA)>>, <<WikiAlt(pA, <<"diagram">>)>>, <<Wiki(pC)>>,
      <<Wiki(pJpg)>>, <<Wiki(pJpeg)>>, <<Wiki(pGt)>>,
      <<Wiki(pMissing)>>,
      <<Md(<<"shot">>, pA)>>, <<Md(<<"logo">>, RemoteLogo)>>,
      <<Text("text")>>,
      <<Marker(pPadded), NL, Md(pA, RawUrl(<<"d1", ".", "png">>))>>,
      <<Marker(pA)>> }

RECURSIVE BodiesOf(_)
BodiesOf(n) ==
    IF n = 0 THEN { <<>> }
    ELSE BodiesOf(n - 1) \cup { b \o i : b \in BodiesOf(n - 1), i \in BodyItems }

Bodies == BodiesOf(MaxBodyItems)

\* the network around the n processLocalImage calls of one push: all of
\* them fine, or one of them failing in one of the three ways
NetPlans(n) ==
    { [i \in 1..n |-> "ok"] }
        \cup { [i \in 1..n |-> IF i = j THEN f ELSE "ok"] :
                    j \in 1..n, f \in NetOutcomes \ {"ok"} }

ImagesIdle ==
    /\ ipc = "idle"
    /\ imgBody = <<>>
    /\ imgContent = <<>>
    /\ imgRestored = <<>>
    /\ uploadedCount = 0
    /\ skippedCount = 0
    /\ puts = <<>>
    /\ probes = 0
    /\ pushes = 0

ImagesStart ==
    /\ ipc = "ready"
    /\ imgBody \in Bodies
    /\ imgContent = imgBody
    /\ imgRestored = <<>>
    /\ uploadedCount = 0
    /\ skippedCount = 0
    /\ puts = <<>>
    /\ probes = 0
    /\ pushes = 0

\* one call processImagesOnPush(app, settings, token, body)
PushImages ==
    /\ ipc \in {"ready", "pushed", "restored"}
    /\ pushes < MaxPushes
    /\ \E nets \in NetPlans(Len(ImageMatches(imgBody))) :
        LET r == ProcessImagesOnPush(imgBody, hosting, nets, assets) IN
        /\ imgContent' = r.content
        /\ uploadedCount' = r.uploadedCount
        /\ skippedCount' = r.skippedCount
        /\ assets' = r.repo
        /\ puts' = puts \o r.puts
        /\ probes' = probes + r.probes
    /\ pushes' = pushes + 1
    /\ ipc' = "pushed"
    /\ imgRestored' = <<>>
    /\ UNCHANGED <<imgBody, hosting>>

\* one call restoreLocalImages(content), as a pull of the pushed imgBody does
RestoreImages ==
    /\ ipc \in {"ready", "pushed"}
    /\ imgRestored' = RestoreLocalImages(imgContent)
    /\ ipc' = "restored"
    /\ UNCHANGED <<imgBody, imgContent, uploadedCount, skippedCount, assets, puts, probes,
                   pushes, hosting>>

(***************************************************************************)
(* Issues and the remote project.  An issue is identified by owner,        *)
(* repository and number; the remote keeps a title and a body for each.    *)
(***************************************************************************)
Issue(o, r, n) == [owner |-> o, repo |-> r, number |-> n]

I1 == Issue("o", "r", 1)
I2 == Issue("o", "r", 2)
I3 == Issue("o", "q", 1)

Issues == {I1, I2, I3}

\* the order in which the project lists its items
ProjectOrder == <<I1, I2, I3>>

\* the decimal digits of a number, one atom per digit
RECURSIVE DecimalDigits(_)
DecimalDigits(n) ==
    IF n < 10 THEN <<ToString(n)>> ELSE DecimalDigits(n \div 10) \o <<ToString(n % 10)>>

\* the canonical URL of an issue, content.url
IssueUrl(i) ==
    <<"https:", "/", "/", "github.com", "/", i.owner, "/", i.repo, "/", "issues", "/">>
        \o DecimalDigits(i.number)

\* content.repository.nameWithOwner
Repository(i) == <<i.owner, "/", i.repo>>

\* the status facet of each item and the project's status options
StatusOf(i) == IF i = I1 THEN "Todo" ELSE IF i = I2 THEN "No Status" ELSE "Done"
StatusOptions == <<"Todo", "Doing", "Done">>

\* the logins of the assignees of each item
AssigneesOf(i) ==
    IF i = I1 THEN {"ALICE"} ELSE IF i = I2 THEN {"bob"} ELSE {"alice", "bob"}

\* a GitHubIssue as fetchProjectIssues builds it from the remote state r
GitHubIssue(r, i) ==
    [number |-> i.number, title |-> r[i].title, body |-> r[i].body,
     repository |-> Repository(i), url |-> IssueUrl(i), status |-> StatusOf(i),
     assignees |-> AssigneesOf(i)]

(***************************************************************************)
(* types.ts: file names                                                    *)
(***************************************************************************)
\* INVALID_FILENAME_CHARS and WINDOWS_RESERVED_NAMES, on atoms
InvalidFilenameAtoms == {"<", ">", ":", "\"", "/", "\\", "|", "?", "*"}
WindowsReservedNames == {"CON", "PRN", "AUX", "NUL", "COM1", "LPT1", "con", "nul"}

\* /-+/g -> "-"
RECURSIVE CollapseDashes(_)
CollapseDashes(s) ==
    IF Len(s) < 2 THEN s
    ELSE IF s[1] = "-" /\ s[2] = "-" THEN CollapseDashes(Tail(s))
    ELSE <<s[1]>> \o CollapseDashes(Tail(s))

\* /^[-\s]+|[-\s]+$/g -> ""
RECURSIVE TrimDashesLeft(_)
TrimDashesLeft(s) ==
    IF s # <<>> /\ Head(s) \in {"-", " "} THEN TrimDashesLeft(Tail(s)) ELSE s

RECURSIVE TrimDashesRight(_)
TrimDashesRight(s) ==
    IF s # <<>> /\ s[Len(s)] \in {"-", " "}
        THEN TrimDashesRight(SubSeq(s, 1, Len(s) - 1)) ELSE s

\* types.ts sanitizeFilename (names here stay far below the 200 characters
\* at which it truncates)
SanitizeFilename(name) ==
    LET replaced == [j \in 1..Len(name) |->
                        IF name[j] \in InvalidFilenameAtoms THEN "-" ELSE name[j]]
        trimmed == TrimDashesRight(TrimDashesLeft(CollapseDashes(replaced)))
        reserved == IF Len(trimmed) = 1 /\ trimmed[1] \in WindowsReservedNames
                        THEN trimmed \o <<"_">> ELSE trimmed
    IN IF reserved = <<>> THEN <<"untitled">> ELSE reserved

\* the text "(n)"
NumberInParens(n) == "(" \o ToString(n) \o ")"

\* types.ts generateIssueFilename: `${sanitizedTitle} (${issue.number})`
GenerateIssueFilename(issue) ==
    SanitizeFilename(issue.title) \o <<" ", NumberInParens(issue.number)>>

(***************************************************************************)
(* issue-files.ts: the content of an issue file is a header block and a    *)
(* body.  hdr.present: the file starts with a --- block; hdr.url: the value *)
(* of its url field (<<>>: no such field); hdr.extra: the block has other  *)
(* fields too.                                                             *)
(***************************************************************************)
NoHeader == [present |-> FALSE, extra |-> FALSE, url |-> <<>>]
FileContent(h, b) == [hdr |-> h, body |-> b]

\* issue-files.ts generateFrontmatter
GenerateFrontmatter(issue) == [present |-> TRUE, extra |-> FALSE, url |-> issue.url]

\* issue-files.ts generateIssueContent
GenerateIssueContent(issue) ==
    FileContent(GenerateFrontmatter(issue), RestoreLocalImages(issue.body))

NoFrontmatter == [url |-> <<>>, repo |-> <<>>, issue_number |-> 0]

Digits == {"0", "1", "2", "3", "4", "5", "6", "7", "8", "9"}

\* parseInt(s, 10) of one digit
ParseInt(a) == CHOOSE n \in 0..9 : ToString(n) = a

\* parseInt(s, 10) of a run of digits
RECURSIVE ParseDigits(_)
ParseDigits(s) ==
    IF s = <<>> THEN 0
    ELSE 10 * ParseDigits(SubSeq(s, 1, Len(s) - 1)) + ParseInt(s[Len(s)])

\* what (\d+) takes of url from position j on: the digits up to the first
\* atom that is none
DigitRun_FirstDigit(url, j) == <<url[j]>>

RECURSIVE DigitRun(_, _)
DigitRun(url, j) ==
    IF j > Len(url) \/ url[j] \notin Digits THEN <<>>
    ELSE <<url[j]>> \o DigitRun(url, j + 1)

\* where /\/([^\/]+)\/([^\/]+)\/issues\/(\d+)/ matches in url: at a "/"
\* followed by owner, "/", repo, "/", "issues", "/", digits
UrlMatchAt(url, j) ==
    /\ j + 7 <= Len(url)
    /\ url[j] = "/"
    /\ url[j + 1] # "/"
    /\ url[j + 2] = "/"
    /\ url[j + 3] # "/"
    /\ url[j + 4] = "/"
    /\ url[j + 5] = "issues"
    /\ url[j + 6] = "/"
    /\ url[j + 7] \in Digits

\* issue-files.ts parseFrontmatter
ParseFrontmatter(c) ==
    LET url == c.hdr.url
        matches == { j \in 1..Len(url) : UrlMatchAt(url, j) }
        first == CHOOSE j \in matches : \A h \in matches : j <= h
    IN
    IF ~c.hdr.present \/ url = <<>> \/ matches = {} THEN NoFrontmatter
    ELSE [url |-> url,
          repo |-> <<url[first + 1], "/", url[first + 3]>>,
          issue_number |-> ParseDigits(DigitRun(url, first + 7))]

\* issue-files.ts extractBody
ExtractBody(c) == c.body

\* whether a file is a managed record
IsManaged(c) == ParseFrontmatter(c) # NoFrontmatter

(***************************************************************************)
(* The vault, as far as the plugin touches it: files maps the path         *)
(* <<folder, basename>> of every markdown file of the issues folder        *)
(* ("issues") and of its archive subfolder ("archive") to its content;     *)
(* folders holds the folders that exist; children lists the files of the   *)
(* issues folder as TFolder.children does, in the order they came into it. *)
(***************************************************************************)
IndexFileName == <<"Board">>

Vault(fs, fds, ch) == [files |-> fs, folders |-> fds, children |-> ch]

EmptyVault == Vault(<<>>, {}, <<>>)

\* app.vault.modify / app.vault.create
WriteFile(fs, p, c) == [q \in DOMAIN fs \cup {p} |-> IF q = p THEN c ELSE fs[q]]

\* app.vault.rename to a free path
MoveFile_Drops(fs, p, q) == [x \in DOMAIN fs \ {p} |-> fs[x]]

MoveFile(fs, p, q) ==
    [x \in (DOMAIN fs \ {p}) \cup {q} |-> IF x = q THEN fs[p] ELSE fs[x]]

\* issue-files.ts ensureFolder
EnsureFolder(v, folder) == [v EXCEPT !.folders = @ \cup {folder}]

\* issue-files.ts writeIssueFile
WriteIssueFile_CreateOnly(v, issue) ==
    LET filename == GenerateIssueFilename(issue)
        filePath == <<"issues", filename>>
        w == EnsureFolder(v, "issues")
    IN IF filePath \in DOMAIN v.files THEN w
       ELSE [w EXCEPT !.files = WriteFile(@, filePath, GenerateIssueContent(issue)),
                      !.children = Append(@, filename)]

WriteIssueFile(v, issue) ==
    LET filename == GenerateIssueFilename(issue)
        filePath == <<"issues", filename>>
        w == EnsureFolder(v, "issues")
    IN [w EXCEPT !.files = WriteFile(@, filePath, GenerateIssueContent(issue)),
                 !.children = IF filePath \in DOMAIN v.files THEN @
                              ELSE Append(@, filename)]

\* syncProject's loop over issues: one writeIssueFile per fetched issue
RECURSIVE WriteIssueFiles(_, _)
WriteIssueFiles(v, issues) ==
    IF issues = <<>> THEN v
    ELSE WriteIssueFiles(WriteIssueFile(v, Head(issues)), Tail(issues))

\* issue-files.ts getIssueFiles: the children of the issues folder that are
\* not the index file and whose frontmatter parses
GetIssueFiles(v) ==
    IF "issues" \notin v.folders THEN <<>>
    ELSE SelectSeq(v.children,
                   LAMBDA n : n # IndexFileName /\ IsManaged(v.files[<<"issues", n>>]))

\* the loop of archiveOldIssues over issueFiles: every file whose number is
\* not current is renamed into the archive.  app.vault.rename rejects a
\* destination that exists ("Destination file already exists!"); the error
\* leaves the loop with the earlier renames done.
RECURSIVE ArchiveLoop(_, _, _, _)
ArchiveLoop(v, issueFiles, currentIssueNumbers, archivedCount) ==
    IF issueFiles = <<>>
        THEN [vault |-> v, archivedCount |-> archivedCount, thrown |-> FALSE]
    ELSE LET name == Head(issueFiles)
             file == <<"issues", name>>
             newPath == <<"archive", name>>
             w == EnsureFolder(v, "archive")
         IN IF ParseFrontmatter(v.files[file]).issue_number \in currentIssueNumbers
                THEN ArchiveLoop(v, Tail(issueFiles), currentIssueNumbers, archivedCount)
            ELSE IF newPath \in DOMAIN v.files
                THEN [vault |-> w, archivedCount |-> archivedCount, thrown |-> TRUE]
            ELSE ArchiveLoop([w EXCEPT !.files = MoveFile(@, file, newPath),
                                       !.children = SelectSeq(@, LAMBDA n : n # name)],
                             Tail(issueFiles), currentIssueNumbers, archivedCount + 1)

\* issue-files.ts archiveOldIssues
ArchiveOldIssues(v, currentIssueNumbers) ==
    ArchiveLoop(v, GetIssueFiles(v), currentIssueNumbers, 0)

\* the statuses that are no option, in the order the issues bring them up
RECURSIVE UnknownStatuses(_, _)
UnknownStatuses(issues, seen) ==
    IF issues = <<>> THEN <<>>
    ELSE IF Head(issues).status \in seen THEN UnknownStatuses(Tail(issues), seen)
    ELSE <<Head(issues).status>>
            \o UnknownStatuses(Tail(issues), seen \cup {Head(issues).status})

\* the keys a Map holds after set() of each name in turn: a name set
\* again keeps its place
RECURSIVE MapKeys(_)
MapKeys(names) ==
    IF names = <<>> THEN <<>>
    ELSE LET front == MapKeys(SubSeq(names, 1, Len(names) - 1))
             x == names[Len(names)]
         IN IF \E j \in 1..Len(front) : front[j] = x THEN front ELSE Append(front, x)

\* the keys of issuesByStatus in insertion order: the status options, then
\* "No Status", then whatever else the issues carry
IndexKeys_NoStatusFirst(issues, statusOptions) ==
    LET known == MapKeys(<<"No Status">> \o statusOptions)
    IN known \o UnknownStatuses(issues, { known[j] : j \in 1..Len(known) })

IndexKeys(issues, statusOptions) ==
    LET known == MapKeys(statusOptions \o <<"No Status">>)
    IN known \o UnknownStatuses(issues, { known[j] : j \in 1..Len(known) })

\* one `- [[${issuesFolder}/${filename}|${issue.title}]]` line
IndexLink(issue) == [path |-> GenerateIssueFilename(issue), title |-> issue.title]

\* issue-files.ts generateIndexContent: one section per status that has
\* issues, with a link per issue (the "Last synced" line carries the clock
\* and is left out)
GenerateIndexContent(issues, statusOptions) ==
    LET keys == IndexKeys(issues, statusOptions)
        statusIssues(s) == SelectSeq(issues, LAMBDA x : x.status = s)
        section(s) == [status |-> s,
                       links |-> [j \in 1..Len(statusIssues(s)) |->
                                    IndexLink(statusIssues(s)[j])]]
    IN SelectSeq([j \in 1..Len(keys) |-> section(keys[j])],
                 LAMBDA sec : sec.links # <<>>)

NoIndex == <<>>

\* sync.ts 207: file.basename.replace(/^\(\d+\)\s*/, "").trim()
TitleFromBasename(basename) ==
    IF basename # <<>> /\ basename[1] \in { NumberInParens(n) : n \in 0..9 }
        THEN Trim(TrimLeft(Tail(basename)))
        ELSE Trim(basename)

(***************************************************************************)
(* The vault and the remote project under pull, push and archive           *)
(***************************************************************************)
MaxUpdates == 1

\* the issue a frontmatter names, as the GET_ISSUE lookup of updateIssue
\* resolves it
IssuesNamed(fm) ==
    { i \in Issues : Repository(i) = fm.repo /\ i.number = fm.issue_number }

\* what the current iteration of the project may hold when it is fetched
Iterations == { {}, {I1}, {I1, I2}, {I2, I3}, {I1, I2, I3} }

\* fetchProjectIssues: the items of the current iteration, in project order
FetchProjectIssues(r, fetched) ==
    LET kept == SelectSeq(ProjectOrder, LAMBDA i : i \in fetched)
    IN [j \in 1..Len(kept) |-> GitHubIssue(r, kept[j])]

\* new Set(issues.map((i) => i.number))
CurrentIssueNumbers(issues) == { issues[j].number : j \in 1..Len(issues) }

\* the local file rewritten with the body that went to the remote
PushedFileContent_Sent(frontmatter, originalBody, bodyForGitHub) ==
    FileContent([present |-> TRUE, extra |-> FALSE, url |-> frontmatter.url],
                bodyForGitHub)

\* sync.ts 220-224: the header with the url alone, then the original body
PushedFileContent(frontmatter, originalBody, bodyForGitHub) ==
    FileContent([present |-> TRUE, extra |-> FALSE, url |-> frontmatter.url],
                originalBody)

\* the outcomes of the two requests of updateIssue
UpdateOutcomes == {"ok", "lookupFails", "updateFails"}

RemoteStart ==
    [i \in Issues |->
        [title |-> IF i = I2 THEN <<"U", ":">> ELSE <<"T">>,
         body |-> IF i = I1 THEN <<Text("text")>> ELSE <<>>]]

\* a note of the user's, and issue files as earlier pulls and local edits
\* left them
UserNote == FileContent(NoHeader, <<Text("mine")>>)
EditedIssueFile == FileContent(GenerateFrontmatter(GitHubIssue(RemoteStart, I1)), <<Wiki(pA)>>)
LegacyIssueFile ==
    FileContent([present |-> TRUE, extra |-> TRUE, url |-> IssueUrl(I2)],
                <<WikiAlt(pA, <<"diagram">>), Wiki(pMissing)>>)

IssueFileName(i) == GenerateIssueFilename(GitHubIssue(RemoteStart, i))

InitialVaults ==
    { EmptyVault,
      Vault(WriteFile(<<>>, <<"issues", IssueFileName(I1)>>, UserNote),
            {"issues"}, <<IssueFileName(I1)>>),
      Vault(WriteFile(<<>>, <<"issues", IssueFileName(I1)>>, EditedIssueFile),
            {"issues"}, <<IssueFileName(I1)>>),
      Vault(WriteFile(WriteFile(<<>>, <<"issues", IssueFileName(I2)>>, LegacyIssueFile),
                      <<"issues", <<"notes">>>>, UserNote),
            {"issues"}, <<<<"notes">>, IssueFileName(I2)>>) }

\* the vault the variables hold
TheVault == Vault(files, folders, children)

SetVault(v) ==
    /\ files' = v.files
    /\ folders' = v.folders
    /\ children' = v.children

HoldsVault(v) ==
    /\ files = v.files
    /\ folders = v.folders
    /\ children = v.children

\* authState after logout (DEFAULT_AUTH_STATE) and after a login, which
\* stores the token together with the login of its user
LoggedOut == [accessToken |-> FALSE, username |-> ""]
LoggedIn == [accessToken |-> TRUE, username |-> "Alice"]

\* the entry point run last: op is "none" before the first run; arg is the
\* set of items the fetch answered (pull) or the path of the file (push); thrown is the message of the error the run ended with ("" when
\* it returned); calls are the kinds of request it issued to the remote
\* ("metadata", "items", "images", "put", "lookup", "update") and to the
\* vault ("read"); rerunOf tells a complete pull that follows a pull with the
\* same answer of the fetch: "complete" or "failed" as that one ended
Ran(op, arg, thrown, calls) ==
    [op |-> op, arg |-> arg, thrown |-> thrown, calls |-> calls, rerunOf |-> "none"]

NothingRan == Ran("none", {}, "", {})

NotAuthenticated == "Not authenticated. Please login to GitHub first."
InvalidProjectUrl ==
    "Invalid project URL. Expected format: https://github.com/orgs/{org}/projects/{number}"
InvalidProjectUrlShort == "Invalid project URL."
RequestFailed == "Request failed"
WriteFailed == "write failed"
DestinationExists == "Destination file already exists!"
NotASyncedIssue == "This file does not appear to be a synced issue. Missing frontmatter."

VaultIdle ==
    /\ remote = RemoteStart
    /\ HoldsVault(EmptyVault)
    /\ index = NoIndex
    /\ updates = <<>>
    /\ auth = LoggedOut
    /\ onlyMyIssues = FALSE
    /\ lastRun = NothingRan

VaultStart ==
    /\ remote = RemoteStart
    /\ \E v \in InitialVaults : HoldsVault(v)
    /\ index = NoIndex
    /\ updates = <<>>
    /\ auth = LoggedIn
    /\ onlyMyIssues = FALSE
    /\ lastRun = NothingRan

\* files of the user's that are no issue files: a note with a picture and
\* no header, a note whose header has no url field, a note whose url is
\* that of a pull request
UserSketch == FileContent(NoHeader, <<Wiki(pA)>>)
UserDraft == FileContent([present |-> TRUE, extra |-> TRUE, url |-> <<>>], <<Wiki(pA)>>)
UserReview ==
    FileContent([present |-> TRUE, extra |-> FALSE,
                 url |-> <<"https:", "/", "/", "github.com", "/", "o", "/", "r", "/",
                           "pull", "/", "3">>],
                <<Text("mine")>>)

EntryVaults ==
    InitialVaults
        \cup { Vault(WriteFile(WriteFile(WriteFile(<<>>,
                            <<"issues", <<"sketch">>>>, UserSketch),
                            <<"issues", <<"draft">>>>, UserDraft),
                            <<"issues", <<"review">>>>, UserReview),
                     {"issues"}, << <<"sketch">>, <<"draft">>, <<"review">> >>) }

EntryStart ==
    /\ remote = RemoteStart
    /\ \E v \in EntryVaults : HoldsVault(v)
    /\ index = NoIndex
    /\ updates = <<>>
    /\ auth \in {LoggedOut, LoggedIn}
    /\ onlyMyIssues \in BOOLEAN
    /\ lastRun = NothingRan

\* sync.ts 82-88: the issues assigned to the user when onlyMyIssues is on
OnlyMine_Everyone(issues) == issues

OnlyMine(issues) ==
    IF onlyMyIssues /\ auth.username # ""
        THEN SelectSeq(issues,
                LAMBDA x : \E a \in x.assignees : LowerAtom(a) = LowerAtom(auth.username))
        ELSE issues

\* the issues syncProject works on when the fetch answers `fetched`
SyncedIssues(fetched) == OnlyMine(FetchProjectIssues(remote, fetched))

\* the reads of getIssueFiles: one per markdown child but the index file
ArchiveCalls(v) ==
    IF "issues" \in v.folders /\ \E j \in 1..Len(v.children) : v.children[j] # IndexFileName
        THEN {"read"} ELSE {}

\* whether the run before this pull was a pull with the same answer of the
\* fetch, and how it ended
RerunOf(fetched) ==
    IF lastRun.op # "pull" \/ lastRun.arg # fetched THEN "none"
    ELSE IF lastRun.thrown = WriteFailed THEN "failed"
    ELSE IF lastRun.thrown \in {"", DestinationExists} THEN "complete"
    ELSE "none"

\* sync.ts syncProject with every request answered, the fetch answering
\* the issues `fetched`
SyncProject(fetched, archiveOld) ==
    LET issues == SyncedIssues(fetched)
        \* writeIndexFile ensures the issues folder too
        written == EnsureFolder(WriteIssueFiles(TheVault, issues), "issues")
        archived == ArchiveOldIssues(written, CurrentIssueNumbers(issues))
    IN
    /\ auth.accessToken
    /\ index' = GenerateIndexContent(issues, StatusOptions)
    /\ SetVault(IF archiveOld THEN archived.vault ELSE written)
    /\ lastRun' = [Ran("pull", fetched,
                       IF archiveOld /\ archived.thrown THEN DestinationExists ELSE "",
                       {"metadata", "items"}
                            \cup (IF archiveOld THEN ArchiveCalls(written) ELSE {}))
                        EXCEPT !.rerunOf = RerunOf(fetched)]
    /\ UNCHANGED <<remote, hosting, assets, updates, auth, onlyMyIssues>>

\* the ways a syncProject run ends early: parseProjectUrl gives null,
\* fetchProjectMetadata throws, fetchProjectIssues throws, the vault
\* rejects a write
PullFailures == {"badUrl", "metadataFails", "itemsFail", "writeFails"}

\* where a run that meets `failure` ends: without a token, at the first check
EndsAt_NoTokenCheck(failure) == failure

EndsAt(failure) == IF ~auth.accessToken THEN "notAuthenticated" ELSE failure

\* the error a run throws and the calls it has made when it ends early
EarlyError(end) ==
    CASE end = "notAuthenticated" -> NotAuthenticated
      [] end = "badUrl" -> InvalidProjectUrl
      [] end = "writeFails" -> WriteFailed
      [] OTHER -> RequestFailed

EarlyCalls(end) ==
    CASE end = "metadataFails" -> {"metadata"}
      [] end \in {"itemsFail", "writeFails"} -> {"metadata", "items"}
      [] OTHER -> {}

\* the vault a syncProject run leaves when it ends early: the loop over the
\* issues (sync.ts 93-96) starts after the fetches, so only a run whose
\* write k+1 was rejected has written anything: k issue files (and the
\* issues folder, which writeIssueFile and writeIndexFile ensure before
\* they write)
VaultOnFailure_WritesFirst(v, issues, end, k) ==
    EnsureFolder(WriteIssueFiles(v, issues), "issues")

VaultOnFailure_SkipsFailed(v, issues, end, k) ==
    IF end # "writeFails" THEN v
    ELSE EnsureFolder(WriteIssueFiles(v, SubSeq(issues, 1, k)
                                            \o SubSeq(issues, k + 2, Len(issues))), "issues")

VaultOnFailure(v, issues, end, k) ==
    IF end # "writeFails" THEN v
    ELSE EnsureFolder(WriteIssueFiles(v, SubSeq(issues, 1, k)), "issues")

\* sync.ts syncProject ending early; k is the number of issue files written
\* before a write was rejected (k = Len(issues): the index file's write)
SyncProjectFails(fetched, failure, k) ==
    LET end == EndsAt(failure)
        issues == SyncedIssues(fetched)
    IN
    /\ failure \in PullFailures
    /\ k \in 0..Len(issues)
    /\ end = "writeFails" \/ k = 0
    /\ SetVault(VaultOnFailure(TheVault, issues, end, k))
    /\ lastRun' = Ran("pull", IF end = "writeFails" THEN fetched ELSE {},
                   EarlyError(end), EarlyCalls(end))
    /\ UNCHANGED <<remote, index, hosting, assets, updates, auth, onlyMyIssues>>

\* the error pushCurrentIssue throws before it touches anything (sync.ts
\* 146-158), "" when it goes on
PushError_NoHeaderCheck(content) ==
    IF ~auth.accessToken THEN NotAuthenticated ELSE ""

PushError_NeedsHosting(content) ==
    IF ~auth.accessToken THEN NotAuthenticated
    ELSE IF ParseFrontmatter(content) = NoFrontmatter THEN NotASyncedIssue
    ELSE IF HasLocalImages(ExtractBody(content)) /\ ~hosting THEN "No image hosting repo"
    ELSE ""

PushError(content) ==
    IF ~auth.accessToken THEN NotAuthenticated
    ELSE IF ParseFrontmatter(content) = NoFrontmatter THEN NotASyncedIssue
    ELSE ""

\* sync.ts 210-225: app.vault.modify comes after the awaited updateIssue, so
\* the file is rewritten only when updateIssue has returned
PushedFiles_WritesFirst(p, newContent, updated) == WriteFile(files, p, newContent)

PushedFiles(p, newContent, updated) ==
    IF updated THEN WriteFile(files, p, newContent) ELSE files

\* sync.ts pushCurrentIssue on the file at path p
PushCurrentIssue(p, nets, upd) ==
    LET content == files[p]
        error == PushError(content)
        frontmatter == ParseFrontmatter(content)
        originalBody == ExtractBody(content)
        rewrites == HasLocalImages(originalBody) /\ hosting
        imageResult == ProcessImagesOnPush(originalBody, hosting, nets, assets)
        bodyForGitHub == IF rewrites THEN imageResult.content ELSE originalBody
        newTitle == TitleFromBasename(p[2])
        named == IssuesNamed(frontmatter)
        calls == {"read"}
                    \cup (IF rewrites THEN {"images"} ELSE {})
                    \cup (IF rewrites /\ imageResult.puts # <<>> THEN {"put"} ELSE {})
                    \cup {"lookup"}
                    \cup (IF upd # "lookupFails" /\ named # {} THEN {"update"} ELSE {})
    IN
    IF error # ""
        THEN /\ nets = <<>>
             /\ lastRun' = Ran("push", p, error,
                            IF error = NotAuthenticated THEN {} ELSE {"read"})
             /\ UNCHANGED <<remote, files, folders, children, index, updates,
                            hosting, assets, auth, onlyMyIssues>>
        ELSE /\ nets \in NetPlans(IF rewrites THEN Len(ImageMatches(originalBody)) ELSE 0)
             /\ Len(updates) < MaxUpdates
             /\ assets' = IF rewrites THEN imageResult.repo ELSE assets
             /\ IF upd = "ok" /\ named # {}
                 THEN /\ remote' = [remote EXCEPT ![CHOOSE i \in named : TRUE] =
                                        [title |-> newTitle, body |-> bodyForGitHub]]
                      /\ updates' = Append(updates, p)
                 ELSE UNCHANGED <<remote, updates>>
             /\ files' = PushedFiles(p, PushedFileContent(frontmatter, originalBody, bodyForGitHub),
                                     upd = "ok" /\ named # {})
             /\ lastRun' = Ran("push", p,
                            IF upd = "ok" /\ named # {} THEN "" ELSE RequestFailed, calls)
             /\ UNCHANGED <<folders, children, index, hosting, auth, onlyMyIssues>>

\* sync.ts cleanupOldIssues with every request answered, the fetch
\* answering the issues `fetched`
CleanupOldIssues(fetched) ==
    LET issues == FetchProjectIssues(remote, fetched)
        archived == ArchiveOldIssues(TheVault, CurrentIssueNumbers(issues))
    IN
    /\ auth.accessToken
    /\ SetVault(archived.vault)
    /\ lastRun' = Ran("cleanup", {},
                   IF archived.thrown THEN DestinationExists ELSE "",
                   {"metadata", "items"} \cup ArchiveCalls(TheVault))
    /\ UNCHANGED <<remote, index, hosting, assets, updates, auth, onlyMyIssues>>

\* sync.ts cleanupOldIssues ending before archiveOldIssues
CleanupOldIssuesFails(failure) ==
    LET end == EndsAt(failure)
    IN
    /\ failure \in PullFailures \ {"writeFails"}
    /\ lastRun' = Ran("cleanup", {},
                   IF end = "badUrl" THEN InvalidProjectUrlShort ELSE EarlyError(end),
                   EarlyCalls(end))
    /\ UNCHANGED <<remote, files, folders, children, index, hosting, assets, updates,
                   auth, onlyMyIssues>>

Pull == \E fetched \in Iterations, archiveOld \in BOOLEAN : SyncProject(fetched, archiveOld)

PullFails ==
    \E fetched \in Iterations, failure \in PullFailures, k \in 0..Cardinality(Issues) :
        SyncProjectFails(fetched, failure, k)

Push ==
    \E p \in DOMAIN files, upd \in UpdateOutcomes :
        \E nets \in NetPlans(Len(ImageMatches(ExtractBody(files[p])))) \cup { <<>> } :
            PushCurrentIssue(p, nets, upd)

Cleanup == \E fetched \in Iterations : CleanupOldIssues(fetched)

\* pushes whose lookup request is rejected
PushRejected ==
    \E p \in DOMAIN files :
        \E nets \in NetPlans(Len(ImageMatches(ExtractBody(files[p])))) \cup { <<>> } :
            PushCurrentIssue(p, nets, "lookupFails")

CleanupFails == \E failure \in PullFailures : CleanupOldIssuesFails(failure)

\* the titles an issue may be given on GitHub between two runs
RemoteTitles == { <<"T">>, <<"V">> }

\* an edit of the title of an issue on GitHub, outside the plugin (of the
\* first issue of the project: one retitled issue keeps the state space small)
Retitle ==
    \E i \in {I1}, t \in RemoteTitles :
        /\ remote[i].title # t
        /\ remote' = [remote EXCEPT ![i].title = t]
        /\ UNCHANGED <<files, folders, children, index, updates, auth, onlyMyIssues, lastRun,
                       hosting, assets>>

(***************************************************************************)
(* generateIssueContent and parseFrontmatter on one issue                  *)
(***************************************************************************)
\* the owners, repositories and numbers of the issues handed to the codec:
\* names that are the word of the pattern or a digit, numbers of one, two
\* and three digits
CodecNames == {"o", "r", "issues", "7"}
CodecNumbers == {1, 7, 10, 42, 305}
CodecBodies == { <<>>, <<Text("text")>> }

\* no issue handed over yet
NoIssue == [number |-> 0, url |-> <<>>]

CodecIdle ==
    /\ cpc = "idle"
    /\ codecIssue = NoIssue
    /\ codecContent = FileContent(NoHeader, <<>>)
    /\ codecParsed = NoFrontmatter

CodecStart ==
    /\ cpc = "issue"
    /\ \E owner \in CodecNames, repo \in CodecNames, number \in CodecNumbers,
          body \in CodecBodies :
            LET i == Issue(owner, repo, number)
            IN codecIssue = GitHubIssue([x \in {i} |-> [title |-> <<"T">>, body |-> body]], i)
    /\ codecContent = FileContent(NoHeader, <<>>)
    /\ codecParsed = NoFrontmatter

\* generateIssueContent(issue)
Encode ==
    /\ cpc = "issue"
    /\ cpc' = "encoded"
    /\ codecContent' = GenerateIssueContent(codecIssue)
    /\ UNCHANGED <<codecIssue, codecParsed>>

\* parseFrontmatter(content)
Decode ==
    /\ cpc = "encoded"
    /\ cpc' = "decoded"
    /\ codecParsed' = ParseFrontmatter(codecContent)
    /\ UNCHANGED <<codecIssue, codecContent>>

(***************************************************************************)
(* fetchProjectMetadata's current iteration and the filter of              *)
(* fetchProjectIssues.  Dates are day numbers: new Date(iter.startDate) is  *)
(* the day the iteration starts, setDate(getDate() + duration) the day      *)
(* `duration` days later.                                                   *)
(***************************************************************************)
MaxIterations == 2

Iteration(id, startDate, duration) == [id |-> id, startDate |-> startDate, duration |-> duration]

\* currentIteration: null
NoIteration == Iteration("", 0, 0)

\* iterationField: null, and a field with the iterations `its`
NoIterationField == [present |-> FALSE, iterations |-> <<>>]
IterationField(its) == [present |-> TRUE, iterations |-> its]

\* the start days and durations the project's iterations may have, and the
\* days at which the metadata is fetched
StartDates == {0 - 10, 0 - 3, 0, 2}
Durations == {2, 7, 14}
Nows == {0, 4}
IterationIds == <<"it1", "it2", "it3">>

\* the iteration fields a project may have: up to MaxIterations iterations,
\* the j-th with id IterationIds[j]
IterationFields ==
    { IterationField([j \in 1..n |-> Iteration(IterationIds[j], s[j], d[j])]) :
        n \in 0..MaxIterations, s \in [1..MaxIterations -> StartDates],
        d \in [1..MaxIterations -> Durations] }

\* client.ts 254-259: start <= now && now <= end
IsActive(iter, now) == iter.startDate <= now /\ now <= iter.startDate + iter.duration

\* where Array.prototype.sort with the comparator of client.ts 264-265 puts
\* x into a list it has sorted: behind everything that starts no earlier
\* (the sort is stable)
InsertByStart_Ascending(x, sorted) ==
    LET before == SelectSeq(sorted, LAMBDA y : y.startDate <= x.startDate)
        after == SelectSeq(sorted, LAMBDA y : y.startDate > x.startDate)
    IN before \o <<x>> \o after

InsertByStart(x, sorted) ==
    LET before == SelectSeq(sorted, LAMBDA y : y.startDate >= x.startDate)
        after == SelectSeq(sorted, LAMBDA y : y.startDate < x.startDate)
    IN before \o <<x>> \o after

RECURSIVE SortByStart(_)
SortByStart(its) ==
    IF its = <<>> THEN <<>>
    ELSE InsertByStart(its[Len(its)], SortByStart(SubSeq(its, 1, Len(its) - 1)))

\* client.ts 250-268
CurrentIteration(field, now) ==
    LET activeIterations == SelectSeq(field.iterations, LAMBDA iter : IsActive(iter, now))
    IN IF field.present /\ activeIterations # <<>>
        THEN SortByStart(activeIterations)[1]
        ELSE NoIteration

\* the iteration each item of the project is in ("": in none)
IterationIdOf(i) == IF i = I1 THEN "it1" ELSE IF i = I2 THEN "it2" ELSE ""

\* sync.ts 79: metadata.currentIteration?.id || null
CurrentIterationId(current) == current.id

\* a node of project.fields.nodes (queries.ts 16-37): a single-select field
\* comes with its name and options, a field of another kind as {}
SingleSelectField(name, options) == [name |-> name, hasOptions |-> TRUE, options |-> options]
OtherField == [name |-> "", hasOptions |-> FALSE, options |-> <<>>]

\* the answer of the metadata query: data.organization, its projectV2, the
\* fields of the project and their nodes (the iteration field is metaField)
MetadataResponse(organization, projectV2, fields, nodes) ==
    [organization |-> organization, projectV2 |-> projectV2, fields |-> fields, nodes |-> nodes]

FieldNodeLists ==
    { <<>>,
      <<SingleSelectField("Status", <<"Todo", "Doing", "Done">>)>>,
      <<SingleSelectField("STATUS", <<>>)>>,
      <<OtherField>>,
      <<SingleSelectField("Priority", <<"High", "Low">>)>>,
      <<OtherField, SingleSelectField("status", <<"Todo", "Done">>),
        SingleSelectField("Priority", <<"High", "Low">>)>> }

MetadataResponses ==
    { MetadataResponse(FALSE, FALSE, FALSE, <<>>),
      MetadataResponse(TRUE, FALSE, FALSE, <<>>),
      MetadataResponse(TRUE, TRUE, FALSE, <<>>) }
        \cup { MetadataResponse(TRUE, TRUE, TRUE, nodes) : nodes \in FieldNodeLists }

\* String.prototype.toLowerCase on the name of a field
LowerFieldName(x) == IF x \in {"Status", "STATUS"} THEN "status" ELSE LowerAtom(x)

\* statusField: null, and the options of the field found
NoStatusField == [present |-> FALSE, options |-> <<>>]

\* client.ts 221-231: field.options && field.name?.toLowerCase() === "status"
IsStatusField_CaseSensitive(field) == field.hasOptions /\ field.name = "status"

IsStatusField(field) == field.hasOptions /\ LowerFieldName(field.name) = "status"

\* client.ts 218-248: the loop over the field nodes; the last status field
\* found is the one kept
StatusField(nodes) ==
    LET found == SelectSeq(nodes, IsStatusField)
    IN IF found = <<>> THEN NoStatusField
       ELSE [present |-> TRUE, options |-> found[Len(found)].options]

MissingOrganization == "Could not find organization"
MissingProject == "Could not find project"
MissingFields == "Could not read project fields"
MissingStatusField == "Could not find Status field in project"

\* client.ts 196-248: the error fetchProjectMetadata throws ("": none)
MetadataError(response) ==
    IF ~response.organization THEN MissingOrganization
    ELSE IF ~response.projectV2 THEN MissingProject
    ELSE IF ~response.fields THEN MissingFields
    ELSE IF ~StatusField(response.nodes).present THEN MissingStatusField
    ELSE ""

\* a node of item.fieldValues.nodes (queries.ts 63-80): the value of a
\* single-select field, of an iteration field, and of a field of another
\* kind, which comes as {}
SingleSelectValue(field, name) == [field |-> field, name |-> name, iterationId |-> ""]
IterationValue(field, iterationId) == [field |-> field, name |-> "", iterationId |-> iterationId]
OtherValue == [field |-> "", name |-> "", iterationId |-> ""]

\* item.content (queries.ts 81-103): an issue comes with its number; a draft
\* issue and a pull request come as {}, which has no number (0: undefined);
\* content the token may not read comes as null
IssueContent(number) == [present |-> TRUE, number |-> number]
OtherContent == [present |-> TRUE, number |-> 0]
NullContent == [present |-> FALSE, number |-> 0]

ItemNode(content, fieldValues) == [content |-> content, fieldValues |-> fieldValues]

\* the node of the item of issue i: its status, unless it has none, and
\* its iteration, unless it is in none
IssueItem(i) ==
    ItemNode(IssueContent(i.number),
             (IF StatusOf(i) = "No Status" THEN <<OtherValue>>
              ELSE <<SingleSelectValue("Status", StatusOf(i)),
                     SingleSelectValue("Priority", "High")>>)
             \o (IF IterationIdOf(i) = "" THEN <<>>
                 ELSE <<IterationValue("Iteration", IterationIdOf(i))>>))

\* a draft issue and a pull request on the board, each with a status and an
\* iteration, and an item whose content is null
DraftItem ==
    ItemNode(OtherContent, <<SingleSelectValue("Status", "Todo"), IterationValue("Iteration", "it1")>>)
PullRequestItem ==
    ItemNode(OtherContent, <<SingleSelectValue("Status", "Doing"), IterationValue("Iteration", "it2")>>)
RedactedItem == ItemNode(NullContent, <<>>)

ItemLists ==
    { [j \in 1..Len(ProjectOrder) |-> IssueItem(ProjectOrder[j])],
      <<DraftItem, IssueItem(I1), PullRequestItem, IssueItem(I2), RedactedItem, IssueItem(I3)>>,
      <<DraftItem, PullRequestItem, RedactedItem>> }

\* client.ts 343-345: items without issue content are skipped
HasIssueContent_AnyContent(item) == item.content.present

HasIssueContent(item) == item.content.present /\ item.content.number # 0

\* client.ts 348-359: the status and the iteration of the item, the last
\* matching field value winning
ItemStatus(fieldValues) ==
    LET named == SelectSeq(fieldValues,
                           LAMBDA fv : LowerFieldName(fv.field) = "status" /\ fv.name # "")
    IN IF named = <<>> THEN "No Status" ELSE named[Len(named)].name

ItemIterationId(fieldValues) ==
    LET valued == SelectSeq(fieldValues, LAMBDA fv : fv.iterationId # "")
    IN IF valued = <<>> THEN "" ELSE valued[Len(valued)].iterationId

\* client.ts 342-380: the issues of the items kept, in project order
FetchFiltered(items, currentIterationId) ==
    LET kept == SelectSeq(items,
                    LAMBDA item :
                        /\ HasIssueContent(item)
                        /\ ~(currentIterationId # ""
                              /\ ItemIterationId(item.fieldValues) # currentIterationId))
    IN [j \in 1..Len(kept) |->
            [number |-> kept[j].content.number, status |-> ItemStatus(kept[j].fieldValues)]]

MetaIdle ==
    /\ mpc = "idle"
    /\ metaResponse = MetadataResponse(FALSE, FALSE, FALSE, <<>>)
    /\ metaItems = <<>>
    /\ metaStatus = NoStatusField
    /\ metaThrown = ""
    /\ metaField = NoIterationField
    /\ metaNow = 0
    /\ metaCurrent = NoIteration
    /\ metaFilterId = ""
    /\ metaIssues = <<>>
    /\ metaCursor = 0
    /\ metaRequests = <<>>

MetaStart ==
    /\ mpc = "project"
    /\ metaResponse \in MetadataResponses
    /\ metaItems \in ItemLists
    /\ metaStatus = NoStatusField
    /\ metaThrown = ""
    /\ metaField \in IterationFields \cup {NoIterationField}
    /\ metaNow \in Nows
    /\ metaCurrent = NoIteration
    /\ metaFilterId = ""
    /\ metaIssues = <<>>
    /\ metaCursor = 0
    /\ metaRequests = <<>>

\* fetchProjectMetadata
FetchMetadata ==
    /\ mpc = "project"
    /\ IF MetadataError(metaResponse) # ""
        THEN /\ mpc' = "thrown"
             /\ metaThrown' = MetadataError(metaResponse)
             /\ UNCHANGED <<metaStatus, metaCurrent>>
        ELSE /\ mpc' = "metadata"
             /\ metaStatus' = StatusField(metaResponse.nodes)
             /\ metaCurrent' = CurrentIteration(metaField, metaNow)
             /\ UNCHANGED metaThrown
    /\ UNCHANGED <<metaResponse, metaItems, metaField, metaNow, metaFilterId, metaIssues,
                   metaCursor, metaRequests>>

\* items(first: 100, after: $cursor) of queries.ts 54: how many items a page
\* holds, scaled down
PageSize == 2

\* what GitHub answers to the items request with `cursor`: the next
\* PageSize items behind it, whether more follow, and the cursor of the
\* last item answered (a cursor is the place of an item in the project)
ItemsPage(items, cursor) ==
    LET last == IF cursor + PageSize < Len(items) THEN cursor + PageSize ELSE Len(items)
    IN [nodes |-> SubSeq(items, cursor + 1, last),
        hasNextPage |-> last < Len(items),
        endCursor |-> last]

\* client.ts 378: allIssues.push(issue) for every kept item of the page
PushAll_LastPage(allIssues, kept) == kept

PushAll(allIssues, kept) == allIssues \o kept

\* sync.ts 75-80 and client.ts 322-324: fetchProjectIssues is called with
\* the id of the current iteration and enters its loop with no cursor
FetchIssues ==
    /\ mpc = "metadata"
    /\ mpc' = "paging"
    /\ metaFilterId' = CurrentIterationId(metaCurrent)
    /\ metaIssues' = <<>>
    /\ metaCursor' = 0
    /\ UNCHANGED <<metaResponse, metaItems, metaStatus, metaThrown, metaField, metaNow,
                   metaCurrent, metaRequests>>

\* client.ts 326-380: one round of the loop: the awaited request with the
\* cursor, hasNextPage and cursor taken from the answer, the kept items of
\* the page collected; the loop ends, and allIssues is returned, when the
\* page reports no further page
FetchPage ==
    /\ mpc = "paging"
    /\ LET page == ItemsPage(metaItems, metaCursor)
       IN /\ metaRequests' = Append(metaRequests, metaCursor)
          /\ metaCursor' = page.endCursor
          /\ metaIssues' = PushAll(metaIssues, FetchFiltered(page.nodes, metaFilterId))
          /\ mpc' = IF page.hasNextPage THEN "paging" ELSE "issues"
    /\ UNCHANGED <<metaResponse, metaItems, metaStatus, metaThrown, metaField, metaNow,
                   metaCurrent, metaFilterId>>

(***************************************************************************)
(* generateIndexContent on a list of issues                                *)
(***************************************************************************)
MaxBoardIssues == 3

\* the statuses the items carry: options, "No Status" (no status set) and a
\* status that is no option of the metadata fetched before
BoardStatuses == {"Todo", "Doing", "Done", "No Status", "Blocked"}

\* the option lists of the metadata
BoardOptionLists ==
    { <<"Todo", "Doing", "Done">>, <<"Done", "Todo">>, <<"Todo", "No Status", "Done">> }

\* the j-th issue of the list: #j with status s
BoardIssue(j, s) == [number |-> j, title |-> <<"T">>, status |-> s]

BoardIssueLists ==
    { [j \in 1..n |-> BoardIssue(j, s[j])] :
        n \in 0..MaxBoardIssues, s \in [1..MaxBoardIssues -> BoardStatuses] }

BoardIdle ==
    /\ bpc = "idle"
    /\ boardIssues = <<>>
    /\ boardOptions = <<>>
    /\ boardContent = NoIndex

BoardStart ==
    /\ bpc = "issues"
    /\ boardIssues \in BoardIssueLists
    /\ boardOptions \in BoardOptionLists
    /\ boardContent = NoIndex

\* generateIndexContent(issues, statusOptions, ...)
GenerateIndex ==
    /\ bpc = "issues"
    /\ bpc' = "generated"
    /\ boardContent' = GenerateIndexContent(boardIssues, boardOptions)
    /\ UNCHANGED <<boardIssues, boardOptions>>

(***************************************************************************)
(* The text of a file under the two patterns of issue-files.ts.  A content *)
(* is a sequence of pieces: the delimiter "---", the newline, the line     *)
(* `url: "<url of an issue>"`, or some other text without newline.         *)
(* parseFrontmatter wants the opening delimiter and newline, and ends the   *)
(* header lazily at the first newline followed by the delimiter;           *)
(* extractBody wants, besides, a newline behind that delimiter, skips one  *)
(* more newline if there is one, and takes the rest.                       *)
(***************************************************************************)
MaxText == 6
MaxTextBody == 2

UrlLine == "url: \"https://github.com/o/r/issues/1\""

TextPieces == {"---", "\n", UrlLine, "x"}

RECURSIVE TextsOf(_)
TextsOf(n) ==
    IF n = 0 THEN { <<>> }
    ELSE TextsOf(n - 1) \cup { t \o <<c>> : t \in TextsOf(n - 1), c \in TextPieces }

\* issue-files.ts generateFrontmatter and generateIssueContent, as text:
\* `${frontmatter}\n\n${body}`
GenerateText(body) == <<"---", "\n", UrlLine, "\n", "---", "\n", "\n">> \o body

\* the contents handed to the two functions: every text of up to MaxText
\* pieces, and the content generated for every body of up to MaxTextBody
Texts == TextsOf(MaxText) \cup { GenerateText(b) : b \in TextsOf(MaxTextBody) }

\* the places i behind the opening "---\n" where "\n---" stands
ClosingPlaces(content) ==
    IF Len(content) >= 2 /\ content[1] = "---" /\ content[2] = "\n"
        THEN { i \in 3..(Len(content) - 1) : content[i] = "\n" /\ content[i + 1] = "---" }
        ELSE {}

Least(S) == CHOOSE x \in S : \A y \in S : x <= y

\* yamlContent.split("\n")
RECURSIVE SplitLines(_)
SplitLines(t) ==
    IF \A j \in 1..Len(t) : t[j] # "\n" THEN <<t>>
    ELSE LET j == Least({ h \in 1..Len(t) : t[h] = "\n" })
         IN <<SubSeq(t, 1, j - 1)>> \o SplitLines(SubSeq(t, j + 1, Len(t)))

\* issue-files.ts parseFrontmatter on text: the lazy match ends at the
\* first "\n---"; the url is that of the first line that is a url line
\* ("": null)
ParseFrontmatterText(content) ==
    IF ClosingPlaces(content) = {} THEN ""
    ELSE LET lines == SplitLines(SubSeq(content, 3, Least(ClosingPlaces(content)) - 1))
         IN IF \E j \in 1..Len(lines) : lines[j] = <<UrlLine>> THEN UrlLine ELSE ""

\* the places where extractBody's pattern may end the header: "\n---" with
\* a newline behind it
BodyPlaces(content) ==
    { i \in ClosingPlaces(content) : i + 2 <= Len(content) /\ content[i + 2] = "\n" }

\* issue-files.ts extractBody on text: behind the first such place, one
\* more newline is skipped if there is one; without a match the content
\* itself is returned
ExtractBodyText(content) ==
    IF BodyPlaces(content) = {} THEN content
    ELSE LET i == Least(BodyPlaces(content))
             from == IF i + 3 <= Len(content) /\ content[i + 3] = "\n" THEN i + 4 ELSE i + 3
         IN SubSeq(content, from, Len(content))

TextIdle ==
    /\ tpc = "idle"
    /\ textContent = <<>>
    /\ textUrl = ""
    /\ textBody = <<>>

TextStart ==
    /\ tpc = "text"
    /\ textContent \in Texts
    /\ textUrl = ""
    /\ textBody = <<>>

\* sync.ts 151-161: the file is read, parseFrontmatter and extractBody are
\* applied to its content
ReadText ==
    /\ tpc = "text"
    /\ tpc' = "read"
    /\ textUrl' = ParseFrontmatterText(textContent)
    /\ textBody' = ExtractBodyText(textContent)
    /\ UNCHANGED textContent

(***************************************************************************)
(* The commands of main.ts.  Each command is an async method the host      *)
(* calls when the user picks it; the operation it awaits is suspended at   *)
(* its requests, and the host goes on serving commands meanwhile.  One     *)
(* issue of the project and its file are followed: a pull is suspended at  *)
(* its fetch and then writes the file from the issue; a push reads the     *)
(* file, is suspended at updateIssue and then rewrites the file with the   *)
(* body it read; a cleanup is suspended at its fetch and leaves the file   *)
(* of an issue that is in the project alone.                               *)
(***************************************************************************)
MaxFlows == 2

FlowIds == 1..MaxFlows

\* the bodies the file and the issue may have
FlowBodies == {"b0", "b1", "b2"}

\* a command run that has returned or has not begun
NoFlow == [op |-> "none", body |-> ""]

\* a run of op suspended at its request; body is the originalBody a push
\* has read
Suspended(op, body) == [op |-> op, body |-> body]

\* main.ts 216-252: whether a command picked now starts its operation:
\* validateConfig and the token test pass (the user is logged in), and
\* nothing looks at the runs that have not returned
MayStart(f) == flows[f] = NoFlow

FlowIdle ==
    /\ flows = [f \in FlowIds |-> NoFlow]
    /\ flowFile = ""
    /\ flowRemote = ""

FlowStart ==
    /\ flows = [f \in FlowIds |-> NoFlow]
    /\ flowFile \in FlowBodies
    /\ flowRemote \in FlowBodies

\* syncProjectCommand up to the first request of syncProject (sync.ts 61)
SyncProjectCommand(f) ==
    /\ MayStart(f)
    /\ flows' = [flows EXCEPT ![f] = Suspended("pull", "")]
    /\ UNCHANGED <<flowFile, flowRemote>>

\* syncProject from the answer of fetchProjectIssues on: writeIssueFile
\* (sync.ts 75-96), or the throw of a rejected request
SyncProjectResumes(f) ==
    /\ flows[f].op = "pull"
    /\ \E answered \in BOOLEAN :
            flowFile' = IF answered THEN flowRemote ELSE flowFile
    /\ flows' = [flows EXCEPT ![f] = NoFlow]
    /\ UNCHANGED flowRemote

\* pushCurrentIssueCommand up to updateIssue: the file is read and its body
\* kept (sync.ts 151-161, 210)
PushCurrentIssueCommand(f) ==
    /\ MayStart(f)
    /\ flows' = [flows EXCEPT ![f] = Suspended("push", flowFile)]
    /\ UNCHANGED <<flowFile, flowRemote>>

\* pushCurrentIssue from the answer of updateIssue on: the issue has the
\* body sent and the file is rewritten with the body read (sync.ts
\* 210-225), or the throw of a rejected request
PushCurrentIssueResumes(f) ==
    /\ flows[f].op = "push"
    /\ \E answered \in BOOLEAN :
            /\ flowRemote' = IF answered THEN flows[f].body ELSE flowRemote
            /\ flowFile' = IF answered THEN flows[f].body ELSE flowFile
    /\ flows' = [flows EXCEPT ![f] = NoFlow]

\* cleanupOldIssuesCommand up to the first request of cleanupOldIssues
\* (sync.ts 251)
CleanupOldIssuesCommand(f) ==
    /\ MayStart(f)
    /\ flows' = [flows EXCEPT ![f] = Suspended("cleanup", "")]
    /\ UNCHANGED <<flowFile, flowRemote>>

\* cleanupOldIssues from the answer of fetchProjectIssues on: the file of
\* an issue of the project stays (sync.ts 258-272)
CleanupOldIssuesResumes(f) ==
    /\ flows[f].op = "cleanup"
    /\ flows' = [flows EXCEPT ![f] = NoFlow]
    /\ UNCHANGED <<flowFile, flowRemote>>

PureIdle == CodecIdle /\ MetaIdle /\ BoardIdle /\ FlowIdle /\ TextIdle

(***************************************************************************)
(* Specifications                                                          *)
(***************************************************************************)
NextRetry ==
    /\ Attempt \/ Backoff \/ Exhausted
    /\ UNCHANGED <<imageVars, sharedVars, vaultVars, pureVars>>

InitRetry ==
    RetryStart /\ ImagesIdle /\ VaultIdle /\ PureIdle /\ hosting = FALSE /\ assets = {}

SpecRetry == InitRetry /\ [][NextRetry]_vars

NextImages ==
    /\ PushImages \/ RestoreImages
    /\ UNCHANGED <<retryVars, vaultVars, pureVars>>

InitImages ==
    RetryIdle /\ ImagesStart /\ VaultIdle /\ PureIdle /\ hosting \in BOOLEAN /\ assets = {}

SpecImages == InitImages /\ [][NextImages]_vars

Next ==
    /\ Pull \/ Push \/ Cleanup
    /\ UNCHANGED <<retryVars, imageVars, pureVars>>

Init ==
    RetryIdle /\ ImagesIdle /\ VaultStart /\ PureIdle /\ hosting \in BOOLEAN /\ assets = {}

Spec == Init /\ [][Next]_vars

NextEntry ==
    /\ Pull \/ PullFails \/ PushRejected \/ Cleanup \/ CleanupFails
    /\ UNCHANGED <<retryVars, imageVars, pureVars>>

InitEntry ==
    RetryIdle /\ ImagesIdle /\ EntryStart /\ PureIdle /\ hosting \in BOOLEAN /\ assets = {}

SpecEntry == InitEntry /\ [][NextEntry]_vars

\* pulls of a project whose issues are retitled on GitHub between them
NextTitles ==
    /\ Pull \/ Retitle
    /\ UNCHANGED <<retryVars, imageVars, pureVars>>

InitTitles ==
    RetryIdle /\ ImagesIdle /\ VaultStart /\ PureIdle /\ hosting = FALSE /\ assets = {}

SpecTitles == InitTitles /\ [][NextTitles]_vars

\* pushes of the file of one issue whose body is any of the bounded bodies
PushStart ==
    /\ remote = RemoteStart
    /\ \E b \in Bodies :
        HoldsVault(Vault(WriteFile(<<>>, <<"issues", IssueFileName(I1)>>,
                            FileContent(GenerateFrontmatter(GitHubIssue(RemoteStart, I1)), b)),
                         {"issues"}, <<IssueFileName(I1)>>))
    /\ index = NoIndex
    /\ updates = <<>>
    /\ auth = LoggedIn
    /\ onlyMyIssues = FALSE
    /\ lastRun = NothingRan

NextPush ==
    /\ Push
    /\ UNCHANGED <<retryVars, imageVars, pureVars>>

InitPush ==
    RetryIdle /\ ImagesIdle /\ PushStart /\ PureIdle /\ hosting \in BOOLEAN /\ assets = {}

SpecPush == InitPush /\ [][NextPush]_vars

\* the other parts idle
RestIdle ==
    /\ RetryIdle /\ ImagesIdle /\ VaultIdle /\ hosting = FALSE /\ assets = {}
    /\ FlowIdle /\ TextIdle

NextCodec ==
    /\ Encode \/ Decode
    /\ UNCHANGED <<retryVars, imageVars, sharedVars, vaultVars, metaVars, boardVars, flowVars, textVars>>

InitCodec == RestIdle /\ CodecStart /\ MetaIdle /\ BoardIdle

SpecCodec == InitCodec /\ [][NextCodec]_vars

NextMeta ==
    /\ FetchMetadata \/ FetchIssues \/ FetchPage
    /\ UNCHANGED <<retryVars, imageVars, sharedVars, vaultVars, codecVars, boardVars, flowVars, textVars>>

InitMeta == RestIdle /\ CodecIdle /\ MetaStart /\ BoardIdle

SpecMeta == InitMeta /\ [][NextMeta]_vars

NextBoard ==
    /\ GenerateIndex
    /\ UNCHANGED <<retryVars, imageVars, sharedVars, vaultVars, codecVars, metaVars, flowVars, textVars>>

InitBoard == RestIdle /\ CodecIdle /\ MetaIdle /\ BoardStart

SpecBoard == InitBoard /\ [][NextBoard]_vars

\* the commands, picked while earlier runs are suspended
NextFlows ==
    /\ \E f \in FlowIds :
            \/ SyncProjectCommand(f)
            \/ SyncProjectResumes(f)
            \/ PushCurrentIssueCommand(f)
            \/ PushCurrentIssueResumes(f)
            \/ CleanupOldIssuesCommand(f)
            \/ CleanupOldIssuesResumes(f)
    /\ UNCHANGED <<retryVars, imageVars, sharedVars, vaultVars, codecVars, metaVars, boardVars,
                   textVars>>

InitFlows ==
    /\ RetryIdle /\ ImagesIdle /\ VaultIdle /\ hosting = FALSE /\ assets = {}
    /\ CodecIdle /\ MetaIdle /\ BoardIdle /\ TextIdle
    /\ FlowStart

SpecFlows == InitFlows /\ [][NextFlows]_vars

NextText ==
    /\ ReadText
    /\ UNCHANGED <<retryVars, imageVars, sharedVars, vaultVars, codecVars, metaVars, boardVars,
                   flowVars>>

InitText ==
    /\ RetryIdle /\ ImagesIdle /\ VaultIdle /\ hosting = FALSE /\ assets = {}
    /\ CodecIdle /\ MetaIdle /\ BoardIdle /\ FlowIdle
    /\ TextStart

SpecText == InitText /\ [][NextText]_vars

(***************************************************************************)
(* Claims about graphqlRequest (checked under SpecRetry)                   *)
(***************************************************************************)
\* a failure the specification calls retryable: HTTP 429/502/503/504, returned
\* or thrown, or a transport error whose message says timeout or network
RetryableFailure(a) ==
    \/ a.status \in {429, 502, 503, 504}
    \/ /\ a.kind = "throw"
       /\ a.status = 0
       /\ \/ Includes(a.errors[1], <<"timeout">>)
          \/ Includes(a.errors[1], <<"network">>)

\* a 200 response with data and no errors
Success(a) == a.kind = "response" /\ a.status = 200 /\ a.errors = <<>>

\* a 200 response with a non-empty errors list
ErrorsResponse(a) == a.kind = "response" /\ a.status = 200 /\ a.errors # <<>>

\* an HTTP failure that is not retryable
NonRetryableHttp(a) == a.status \in Statuses \ {200, 429, 502, 503, 504}

\* the error a failed attempt shows the caller
ObservedError(a) ==
    IF a.kind = "throw" THEN Error(ThrownMessage(a)) ELSE Error(StatusMessage(a.status))

AllRetryable(log) == \A i \in 1..Len(log) : RetryableFailure(log[i])

ExpectedDelays(k) == [i \in 1..k |-> 1000 * Pow2(i - 1)]

\* C7: k <= 4 retryable failures followed by 200 with data: the call is not
\* given up before the 200, returns on attempt k+1, and has slept exactly
\* 1000 * 2^i ms after the i-th failure (i from 0).
C7_RetryThenSuccess ==
    LET n == Len(answers) IN
    /\ (n <= 4 /\ AllRetryable(answers)) =>
            /\ gpc \in {"request", "backoff"}
            /\ gpc = "request" => delays = ExpectedDelays(n)
    /\ (n >= 1 /\ n <= 5 /\ AllRetryable(SubSeq(answers, 1, n - 1)) /\ Success(answers[n])) =>
            /\ gpc = "returned"
            /\ attempt = n - 1
            /\ delays = ExpectedDelays(n - 1)

C7_Witness ==
    /\ gpc = "returned"
    /\ Len(answers) = 5
    /\ \A i \in 1..4 : answers[i] = [kind |-> "response", status |-> 503, errors |-> <<>>]
    /\ delays = <<1000, 2000, 4000, 8000>>

\* C8: a non-retryable HTTP failure, returned or thrown, ends the call on the
\* attempt that saw it: the call throws, nothing is slept after it, and when
\* it is the first answer there was exactly one attempt and no sleep at all.
C8_NonRetryableFailsAtOnce ==
    LET n == Len(answers) IN
    (n >= 1 /\ NonRetryableHttp(answers[n])) =>
        /\ gpc = "thrown"
        /\ attempt = n - 1
        /\ Len(delays) = n - 1
        /\ n = 1 => delays = <<>>

C8_Witness ==
    /\ answers = << [kind |-> "throw", status |-> 404, errors |-> <<>>] >>
    /\ gpc = "thrown"
    /\ attempt = 0
    /\ delays = <<>>

\* C9: a 200 response with a non-empty errors list ends the call on that
\* attempt, whatever the errors say: no retry and no backoff sleep follow.
C9_ErrorsListFailsAtOnce ==
    LET n == Len(answers) IN
    (n >= 1 /\ ErrorsResponse(answers[n])) => gpc = "thrown"

\* C10: at most 5 attempts and 4 sleeps per call; when 5 attempts all failed
\* with retryable failures the call throws the error of the fifth attempt,
\* having slept four times (not after the last attempt).
C10_BoundedAttempts ==
    /\ Len(answers) <= 5
    /\ attempt <= 5
    /\ Len(delays) <= 4
    /\ (Len(answers) = 5 /\ AllRetryable(answers) /\ gpc = "thrown") =>
            /\ outcome = ObservedError(answers[5])
            /\ delays = ExpectedDelays(4)
    /\ (Len(answers) = 5 /\ AllRetryable(answers)) => gpc # "request"

C10_Witness ==
    /\ gpc = "thrown"
    /\ Len(answers) = 5
    /\ AllRetryable(answers)
    /\ answers[4] = [kind |-> "response", status |-> 503, errors |-> <<>>]
    /\ answers[5] = [kind |-> "response", status |-> 429, errors |-> <<>>]
    /\ outcome = Error(<<"Request", "failed,", "status", "429">>)

(***************************************************************************)
(* Claims about the image pipeline (checked under SpecImages)              *)
(***************************************************************************)
\* the last push went through the pipeline and rewrote every local reference
\* of the body (all of them resolved, none was skipped), and the pushed
\* content has been restored as a pull restores it
PushedAllAndRestored ==
    /\ ipc = "restored"
    /\ pushes >= 1
    /\ hosting
    /\ skippedCount = 0
    /\ ImageMatches(imgBody) # <<>>

\* C4: round trip of the reference string: after a push that resolved every
\* local reference of B, restoring the pushed content yields, for every local
\* reference of B, a local embed whose path is that reference string exactly.
C4_RoundTripKeepsReference ==
    PushedAllAndRestored =>
        \A i \in 1..Len(ImageMatches(imgBody)) :
            \E j \in 1..Len(imgRestored) :
                /\ imgRestored[j].k = "wiki"
                /\ imgRestored[j].path = ImageMatches(imgBody)[i].path

\* C5: restore is the exact inverse of the push rewrite: after a push that
\* resolved every local reference of B, restoring the pushed content gives B.
C5_RestoreInvertsPush ==
    PushedAllAndRestored => imgRestored = imgBody

\* C6: dedup: once the asset repository has accepted an upload of some image
\* bytes, no later occurrence of the same bytes, in the same push or in a later
\* one, issues a PUT after its probe was answered (the probe finds the blob).
C6_NoSecondUpload ==
    \A i \in 1..Len(puts) : \A j \in 1..Len(puts) :
        (i < j /\ puts[i].ok /\ puts[j].probed) => puts[i].bytes # puts[j].bytes


(***************************************************************************)
(* Claims about pull, push and archival                                    *)
(***************************************************************************)
\* the vault after the step
TheVaultAfter == Vault(files', folders', children')

\* the files of the issues folder of vault v that decode to a record whose
\* item number is not in S
OldIssueFiles(v, S) ==
    { p \in DOMAIN v.files :
        /\ p[1] = "issues"
        /\ IsManaged(v.files[p])
        /\ ParseFrontmatter(v.files[p]).issue_number \notin S }

\* from vault `before` to vault `after`, exactly the old issue files went
\* to the archive, content intact, and every other file of the issues
\* folder stayed as it was
ArchivedExactly(before, after, S) ==
    \A p \in { q \in DOMAIN before.files : q[1] = "issues" } :
        IF p \in OldIssueFiles(before, S)
            THEN /\ p \notin DOMAIN after.files
                 /\ <<"archive", p[2]>> \in DOMAIN after.files
                 /\ after.files[<<"archive", p[2]>>] = before.files[p]
            ELSE /\ p \in DOMAIN after.files
                 /\ after.files[p] = before.files[p]

\* C1: archiveOldIssues(S), run by cleanupOldIssues or at the end of a pull
\* that archives, moves into the archive exactly the managed files of the
\* issues folder whose item number is not in S, and leaves every other file
\* of the issues folder, managed with a number in S or unmanaged, in place.
C1_ArchivesExactlyOld ==
    [][\A fetched \in Iterations :
        LET issues == SyncedIssues(fetched)
        IN /\ CleanupOldIssues(fetched) =>
                ArchivedExactly(TheVault, TheVaultAfter,
                                CurrentIssueNumbers(FetchProjectIssues(remote, fetched)))
           /\ SyncProject(fetched, TRUE) =>
                ArchivedExactly(WriteIssueFiles(TheVault, issues), TheVaultAfter,
                                CurrentIssueNumbers(issues))]_vars

\* C2: no pull, push or archive step touches an unmanaged file: a file
\* without a parseable URL header is still at its path, with its content,
\* after every step.
C2_UnmanagedUntouched ==
    [][\A p \in DOMAIN files :
        ~IsManaged(files[p]) => (p \in DOMAIN files' /\ files'[p] = files[p])]_vars

MinimalHeader(url) == [present |-> TRUE, extra |-> FALSE, url |-> url]

C11_FailedFetchWritesNothing ==
    [][(/\ lastRun'.op = "pull"
        /\ lastRun'.thrown \in {InvalidProjectUrl, RequestFailed})
            => UNCHANGED <<files, folders, children, index>>]_vars

\* a pull on a vault holding files has ended at the rejected items request
C11_Witness ==
    /\ lastRun.op = "pull"
    /\ lastRun.thrown = RequestFailed
    /\ lastRun.calls = {"metadata", "items"}
    /\ files # <<>>

\* C12: no step of a pull, a push or an archive run, complete or ended
\* midway, takes a file or a folder away: the number of files does not go
\* down, every folder stays, and a file that is gone from its path was in
\* the issues folder and is now in the archive folder under the same name
\* with the same content.
C12_NeverDeletes ==
    [][/\ Cardinality(DOMAIN files') >= Cardinality(DOMAIN files)
       /\ folders \subseteq folders'
       /\ \A p \in DOMAIN files \ DOMAIN files' :
            /\ p[1] = "issues"
            /\ <<"archive", p[2]>> \in DOMAIN files' \ DOMAIN files
            /\ files'[<<"archive", p[2]>>] = files[p]]_vars

\* an archive run has moved a file and a later one ended midway, at a
\* rename the vault rejected
C12_Witness ==
    /\ \E p \in DOMAIN files : p[1] = "archive"
    /\ lastRun.thrown = DestinationExists

\* the issue files a complete run of the loop of syncProject over `issues`
\* writes: one path per filename, holding the content of the last issue
\* with that filename
IssueFilesWritten(issues) == WriteIssueFiles(EmptyVault, issues).files

\* C13: a syncProject run whose writes all went through leaves, at the path
\* of every issue it synced, the content generated from that issue, whatever
\* the vault held before; when it re-runs a pull with the same answer of the
\* fetch and the same settings whose writes all went through, none of these
\* files changes, and when it re-runs one that ended at a rejected write the
\* issue files are those of the complete run.
C13_PullIdempotent ==
    [][(/\ lastRun'.op = "pull"
        /\ lastRun'.thrown \in {"", DestinationExists})
            => LET written == IssueFilesWritten(SyncedIssues(lastRun'.arg))
               IN /\ \A p \in DOMAIN written :
                        p \in DOMAIN files' /\ files'[p] = written[p]
                  /\ lastRun'.rerunOf = "complete"
                        => \A p \in DOMAIN written :
                                p \in DOMAIN files /\ files'[p] = files[p]]_vars

\* a complete pull of two issue files has re-run one that ended at a
\* rejected write
C13_Witness ==
    /\ lastRun.op = "pull"
    /\ lastRun.rerunOf = "failed"
    /\ Cardinality(DOMAIN IssueFilesWritten(SyncedIssues(lastRun.arg))) = 2
    /\ lastRun.thrown = ""

(***************************************************************************)
(* Claims about the header codec (checked under SpecCodec)                 *)
(***************************************************************************)

\* C14: what parseFrontmatter returns for the content generateIssueContent
\* made of an issue names the owner/repo and the number of that issue, and
\* its url.
C14_RoundTrip ==
    cpc = "decoded"
        => /\ codecParsed.repo = codecIssue.repository
           /\ codecParsed.issue_number = codecIssue.number
           /\ codecParsed.url = codecIssue.url

\* issue issues/issues#305 has gone through both functions
C14_Witness ==
    /\ cpc = "decoded"
    /\ codecIssue.repository = <<"issues", "/", "issues">>
    /\ codecIssue.number = 305
    /\ codecParsed.issue_number = 305

\* C15: pushCurrentIssue, called with a credential on a file whose content
\* has no header block, no url field or a url that is not that of an issue,
\* throws the missing-frontmatter error having read the file and done
\* nothing else: no image request, no PUT, no lookup, no update; the file,
\* the remote issues and the asset repository are as before.
C15_UnmanagedFileNotPushed ==
    [][(/\ lastRun'.op = "push"
        /\ auth.accessToken
        /\ ParseFrontmatter(files[lastRun'.arg]) = NoFrontmatter)
            => /\ lastRun'.thrown = NotASyncedIssue
               /\ lastRun'.calls \subseteq {"read"}
               /\ UNCHANGED <<files, folders, children, index, remote, assets, updates>>]_vars

\* the push of a note with a picture and no header has been refused while
\* image hosting was on
C15_Witness ==
    /\ lastRun.op = "push"
    /\ lastRun.thrown = NotASyncedIssue
    /\ files[lastRun.arg] = UserSketch
    /\ hosting

\* C16: without an access token every run of syncProject, pushCurrentIssue
\* and cleanupOldIssues throws the not-authenticated error having issued no
\* request and read no file; files, folders, index, remote issues and asset
\* repository are as before.
C16_NoCredentialNoEffect ==
    [][(/\ ~auth.accessToken
        /\ lastRun'.op \in {"pull", "push", "cleanup"})
            => /\ lastRun'.thrown = NotAuthenticated
               /\ lastRun'.calls = {}
               /\ UNCHANGED <<files, folders, children, index, remote, assets, updates>>]_vars

\* a pull without token has been refused on a vault holding files
C16_Witness ==
    /\ ~auth.accessToken
    /\ lastRun.op = "pull"
    /\ lastRun.thrown = NotAuthenticated
    /\ files # <<>>

(***************************************************************************)
(* Claims about the current iteration (checked under SpecMeta)             *)
(***************************************************************************)
\* the iterations of the field with start <= now <= start + duration days
Qualifying ==
    { j \in 1..Len(metaField.iterations) :
        /\ metaField.iterations[j].startDate <= metaNow
        /\ metaNow <= metaField.iterations[j].startDate + metaField.iterations[j].duration }

\* C17: the currentIteration of the metadata is null exactly when the
\* project has no iteration field or no iteration of it has
\* start <= now <= start + duration days; otherwise it is one of the
\* iterations that have, and none of them starts later.
C17_CurrentIteration ==
    mpc \in {"metadata", "issues"}
        => /\ metaCurrent = NoIteration <=> (~metaField.present \/ Qualifying = {})
           /\ metaCurrent # NoIteration
                => /\ \E j \in Qualifying : metaField.iterations[j] = metaCurrent
                   /\ \A j \in Qualifying :
                        metaField.iterations[j].startDate <= metaCurrent.startDate

\* the example: iterations starting at D-10 for 14 days and at D-3 for 7
\* days, fetched at D: the one starting at D-3 is current
C17_Witness ==
    /\ mpc = "metadata"
    /\ metaNow = 0
    /\ metaField = IterationField(<<Iteration("it1", 0 - 10, 14), Iteration("it2", 0 - 3, 7)>>)
    /\ metaCurrent = Iteration("it2", 0 - 3, 7)

\* C18: when the project has an iteration field, the fetch is handed the id
\* of the current iteration and every item it returns is in that
\* iteration; the fetch runs without iteration id only when the project has
\* no iteration field.
C18_FilteredWheneverIterationField ==
    mpc = "issues"
        => /\ metaField.present
                => /\ metaFilterId # ""
                   /\ \A j \in 1..Len(metaIssues) :
                        \E i \in Issues :
                            /\ i.number = metaIssues[j].number
                            /\ IterationIdOf(i) = metaFilterId
           /\ metaFilterId = "" => ~metaField.present

\* the issues that have the login of the user among their assignees,
\* letter case aside
AssignedToUser ==
    { i \in Issues : \E a \in AssigneesOf(i) : LowerAtom(a) = LowerAtom(auth.username) }

\* C19: with onlyMyIssues on, every file of the issues folder that a pull
\* creates or changes is the file of an issue that has the login of the
\* user among its assignees, compared without regard to letter case, and so
\* is every entry of the index the pull writes.
C19_OnlyMyIssues ==
    [][(/\ lastRun'.op = "pull"
        /\ auth.accessToken
        /\ onlyMyIssues)
            => /\ \A p \in DOMAIN files' :
                    (p[1] = "issues" /\ (p \notin DOMAIN files \/ files'[p] # files[p]))
                        => \E i \in AssignedToUser :
                            files'[p] = GenerateIssueContent(GitHubIssue(remote, i))
               /\ index' # index
                    => \A s \in 1..Len(index') : \A j \in 1..Len(index'[s].links) :
                        \E i \in AssignedToUser :
                            index'[s].links[j] = IndexLink(GitHubIssue(remote, i))]_vars

\* user Alice has pulled an iteration holding the issues #1 (assignee
\* ALICE) and #2 (assignee bob) with onlyMyIssues on: the file of #1 is
\* there, that of #2 is not
C19_Witness ==
    /\ onlyMyIssues
    /\ lastRun.op = "pull"
    /\ lastRun.arg = {I1, I2}
    /\ lastRun.thrown = ""
    /\ <<"issues", IssueFileName(I1)>> \in DOMAIN files
    /\ files[<<"issues", IssueFileName(I1)>>] = GenerateIssueContent(GitHubIssue(remote, I1))
    /\ <<"issues", IssueFileName(I2)>> \notin DOMAIN files
    /\ index # NoIndex

(***************************************************************************)
(* Claims about the index file (checked under SpecBoard)                   *)
(***************************************************************************)
\* the statuses of the sections, in the order of the file
SectionStatuses == [s \in 1..Len(boardContent) |-> boardContent[s].status]

\* every status that has an issue has one section and no other status has
\* any; the section of a status holds one entry per issue of that status,
\* in the order of the issues, so every issue is there once
SectionsHoldTheIssues ==
    /\ { SectionStatuses[s] : s \in 1..Len(boardContent) }
            = { boardIssues[j].status : j \in 1..Len(boardIssues) }
    /\ \A s, u \in 1..Len(boardContent) : SectionStatuses[s] = SectionStatuses[u] => s = u
    /\ \A s \in 1..Len(boardContent) :
            boardContent[s].links
                = LET mine == SelectSeq(boardIssues,
                                        LAMBDA x : x.status = SectionStatuses[s])
                  IN [j \in 1..Len(mine) |->
                        [path |-> GenerateIssueFilename(mine[j]), title |-> mine[j].title]]

\* the place of a status among the options (0: it is none)
OptionPlace(status) ==
    IF \E j \in 1..Len(boardOptions) : boardOptions[j] = status
        THEN CHOOSE j \in 1..Len(boardOptions) : boardOptions[j] = status
        ELSE 0

\* the place of the first issue with a status in the list of issues
FirstIssueWith(status) ==
    CHOOSE j \in 1..Len(boardIssues) :
        /\ boardIssues[j].status = status
        /\ \A h \in 1..(j - 1) : boardIssues[h].status # status

\* C20 as stated: the sections are those of the statuses that have issues,
\* each issue once under its status; their statuses are options or
\* "No Status", they follow the order of the options, and "No Status" is
\* the last section.
C20_SectionsInOptionOrder ==
    bpc = "generated"
        => /\ SectionsHoldTheIssues
           /\ \A s \in 1..Len(boardContent) :
                /\ SectionStatuses[s] = "No Status" => s = Len(boardContent)
                /\ SectionStatuses[s] # "No Status" => OptionPlace(SectionStatuses[s]) > 0
           /\ \A s, u \in 1..Len(boardContent) :
                (s < u /\ SectionStatuses[u] # "No Status")
                    => OptionPlace(SectionStatuses[s]) < OptionPlace(SectionStatuses[u])

\* where a status stands in the order of the sections: the options in
\* their order; then "No Status" unless it is an option; then the statuses
\* that are no option, in the order the issues bring them up
SectionPlace(status) ==
    IF OptionPlace(status) > 0 THEN OptionPlace(status)
    ELSE IF status = "No Status" THEN Len(boardOptions) + 1
    ELSE Len(boardOptions) + 1 + FirstIssueWith(status)

\* C20 (amended): the sections are those of the statuses that have issues,
\* each issue once under its status; the sections of options come in the
\* order of the options, the "No Status" section after them, and after it
\* the sections of statuses that are no option, in the order of their first
\* issue.
C20_SectionsInKeyOrder ==
    bpc = "generated"
        => /\ SectionsHoldTheIssues
           /\ \A s, u \in 1..Len(boardContent) :
                s < u => SectionPlace(SectionStatuses[s]) < SectionPlace(SectionStatuses[u])

\* options Todo, Doing, Done and issues with the statuses Blocked, none and
\* Todo: the sections are Todo, No Status, Blocked
C20_Witness ==
    /\ bpc = "generated"
    /\ boardOptions = <<"Todo", "Doing", "Done">>
    /\ SectionStatuses = <<"Todo", "No Status", "Blocked">>

(***************************************************************************)
(* C21                                                                     *)
(***************************************************************************)
\* the answer has a single-select field named "status", letter case aside
AnswersStatusField ==
    \E j \in 1..Len(metaResponse.nodes) :
        /\ metaResponse.nodes[j].hasOptions
        /\ metaResponse.nodes[j].name \in {"status", "Status", "STATUS"}

\* C21: fetchProjectMetadata returns metadata exactly when the answer has
\* the organization, the project, its fields and among them a single-select
\* field named "status" (letter case aside), and the metadata then carries
\* the options of such a field; with the first three but no such field it
\* throws the missing-status-field error, which it throws in no other case;
\* issues are fetched only after metadata with status options was returned.
C21_StatusFieldOrError ==
    /\ mpc \in {"metadata", "issues"}
        => /\ AnswersStatusField
           /\ metaStatus.present
           /\ \E j \in 1..Len(metaResponse.nodes) :
                /\ metaResponse.nodes[j].hasOptions
                /\ metaResponse.nodes[j].options = metaStatus.options
           /\ metaThrown = ""
    /\ mpc = "thrown"
        => /\ ~metaStatus.present
           /\ metaIssues = <<>>
           /\ metaThrown = MissingStatusField
                <=> /\ metaResponse.organization
                    /\ metaResponse.projectV2
                    /\ metaResponse.fields
                    /\ ~AnswersStatusField
           /\ metaThrown = MissingOrganization <=> ~metaResponse.organization
           /\ metaThrown = MissingProject
                <=> metaResponse.organization /\ ~metaResponse.projectV2
           /\ metaThrown = MissingFields
                <=> metaResponse.organization /\ metaResponse.projectV2 /\ ~metaResponse.fields

\* the project has single-select fields but none named "status": the
\* missing-status-field error is thrown
C21_Witness ==
    /\ mpc = "thrown"
    /\ metaResponse = MetadataResponse(TRUE, TRUE, TRUE, <<SingleSelectField("Priority", <<"High", "Low">>)>>)
    /\ metaThrown = MissingStatusField

(***************************************************************************)
(* C22                                                                     *)
(***************************************************************************)
\* the places in the answer of the items that carry an issue number and
\* are in the iteration asked for
IssuePlaces ==
    { k \in 1..Len(metaItems) :
        /\ metaItems[k].content.present
        /\ metaItems[k].content.number > 0
        /\ metaFilterId # ""
            => \E v \in 1..Len(metaItems[k].fieldValues) :
                 metaItems[k].fieldValues[v].iterationId = metaFilterId }

\* C22: every issue fetchProjectIssues returns has the number of an item of
\* the answer whose content carries a number, and has status "No Status"
\* when that item has no value for a field named status; draft issues,
\* pull requests and items without content are left out and nothing else
\* is: one issue is returned for each item with a number that is in the
\* iteration asked for.
C22_OnlyIssueItems ==
    mpc = "issues"
        => /\ \A j \in 1..Len(metaIssues) :
                \E k \in IssuePlaces :
                    /\ metaIssues[j].number = metaItems[k].content.number
                    /\ (\A v \in 1..Len(metaItems[k].fieldValues) :
                            metaItems[k].fieldValues[v].field \notin {"Status", "status", "STATUS"})
                        => metaIssues[j].status = "No Status"
           /\ Len(metaIssues) = Cardinality(IssuePlaces)

\* a board with a draft issue, a pull request and an item without content
\* among three issues, fetched without iteration filter: the three issues
\* are returned, the one without status value with "No Status"
C22_Witness ==
    /\ mpc = "issues"
    /\ metaFilterId = ""
    /\ metaItems = <<DraftItem, IssueItem(I1), PullRequestItem, IssueItem(I2), RedactedItem,
                     IssueItem(I3)>>
    /\ metaIssues = <<[number |-> I1.number, status |-> "Todo"],
                      [number |-> I2.number, status |-> "No Status"],
                      [number |-> I3.number, status |-> "Done"]>>

(***************************************************************************)
(* Claims about images, second part                                        *)
(***************************************************************************)
\* C23: the remote filename derived for a pushed image is a function of its
\* bytes alone: any two uploads issued for the same bytes are issued for
\* the same filename, whatever the local files are called.
C23_FilenameByBytes ==
    \A i \in 1..Len(puts) : \A j \in 1..Len(puts) :
        puts[i].bytes = puts[j].bytes => puts[i].filename = puts[j].filename

\* C24: with no asset-hosting repository configured, processImagesOnPush
\* returns the body it was given with 0 uploaded and 0 skipped, whatever
\* the body and whatever the vault and the network would answer, and
\* issues neither a probe nor an upload.
C24_NoHostingNoEffect ==
    (~hosting /\ pushes >= 1)
        => /\ imgContent = imgBody
           /\ uploadedCount = 0
           /\ skippedCount = 0
           /\ probes = 0
           /\ puts = <<>>
           /\ assets = {}

\* a body with two resolvable local images pushed without hosting
\* repository
C24_Witness ==
    /\ ~hosting
    /\ ipc = "pushed"
    /\ imgBody = <<Wiki(pA), Md(<<"shot">>, pA)>>
    /\ imgContent = imgBody
    /\ uploadedCount = 0

\* the places of content where a marker is followed by a newline and an
\* image
MarkerImagePairs(content) ==
    { i \in 1..Len(content) :
        /\ content[i].k = "marker"
        /\ i + 2 <= Len(content)
        /\ content[i + 1].k = "text" /\ content[i + 1].path = <<"\n">>
        /\ content[i + 2].k = "md" }

\* C25: restoreLocalImages returns a body that holds no marker followed by
\* an image as it is: remote images without marker, markers without image
\* and every other piece stay in place.
C25_RestoreWithoutPairIsIdentity ==
    (ipc = "restored" /\ MarkerImagePairs(imgContent) = {}) => imgRestored = imgContent

\* a body with a remote image and a marker that no image follows, restored
C25_Witness ==
    /\ ipc = "restored"
    /\ imgContent = <<Md(<<"logo">>, RemoteLogo), Marker(pA)>>
    /\ imgRestored = imgContent

C27_PullPushKeepsTitle ==
    [][updates' # updates =>
            LET p == updates'[Len(updates')]
            IN \A i \in IssuesNamed(ParseFrontmatter(files[p])) :
                    p[2] = GenerateIssueFilename(GitHubIssue(remote, i))
                        => remote'[i].title = remote[i].title]_vars

\* the files of the issues folder that are managed files of issue i
ManagedFilesOf(i) ==
    { p \in DOMAIN files : p[1] = "issues" /\ i \in IssuesNamed(ParseFrontmatter(files[p])) }

\* C28: whatever pulls have run and however the issues were retitled on
\* GitHub between them, the issues folder holds at most one managed file
\* per issue of the project.
C28_OneFilePerIssue ==
    \A i \in Issues : Cardinality(ManagedFilesOf(i)) <= 1

\* C29: a push that throws after it has read the file, whether a request of
\* updateIssue was rejected or the issue was not found, leaves every file
\* with the content it had; a push changes a file only when the update of
\* the issue went through, and then only the file pushed.
C29_FailedPushKeepsFile ==
    [][lastRun'.op = "push"
        => /\ lastRun'.thrown # "" => UNCHANGED <<files, folders, children, index, remote>>
           /\ files' # files
                => /\ lastRun'.thrown = ""
                   /\ "update" \in lastRun'.calls
                   /\ updates' = Append(updates, lastRun'.arg)
                   /\ \A p \in DOMAIN files :
                        p # lastRun'.arg => (p \in DOMAIN files' /\ files'[p] = files[p])]_vars

\* the push of a file with extra header fields and local embeds has ended
\* at the rejected update mutation, with image hosting on: the file still
\* has its header and body
C29_Witness ==
    /\ lastRun.op = "push"
    /\ lastRun.thrown = RequestFailed
    /\ {"images", "lookup", "update"} \subseteq lastRun.calls
    /\ files[lastRun.arg] = LegacyIssueFile

(***************************************************************************)
(* Claims about the commands                                               *)
(***************************************************************************)
\* the command runs whose operation has not returned
InFlight == { f \in FlowIds : flows[f] # NoFlow }

\* C30: at most one pull, push or cleanup is in flight at any time, and so
\* the file a suspended push has read still has the body it read: no other
\* operation wrote it in between.
C30_OneOperationInFlight ==
    /\ Cardinality(InFlight) <= 1
    /\ \A f \in FlowIds : flows[f].op = "push" => flows[f].body = flowFile

(***************************************************************************)
(* Claims about pull, push and archival, third part                        *)
(***************************************************************************)
\* the files of the archive folder are those of before the step
ArchiveUntouched ==
    \A p \in DOMAIN files' :
        p[1] = "archive" => (p \in DOMAIN files /\ files'[p] = files[p])

\* C31: a pull that ends at a rejected write has written the files of the
\* first k fetched issues, for some k, and nothing after them: the later
\* issue files and the index file are as before and nothing is archived or
\* removed; a pull that ends in the archival has written every issue file
\* and the index file before.
C31_WriteFailureAbortsPull ==
    [][lastRun'.op = "pull"
        => LET issues == SyncedIssues(lastRun'.arg)
           IN /\ lastRun'.thrown = WriteFailed
                    => /\ \E k \in 0..Len(issues) :
                            TheVaultAfter
                                = EnsureFolder(WriteIssueFiles(TheVault, SubSeq(issues, 1, k)),
                                               "issues")
                       /\ index' = index
                       /\ ArchiveUntouched
                       /\ \A p \in DOMAIN files : p \in DOMAIN files'
              /\ lastRun'.thrown = DestinationExists
                    => /\ index' = GenerateIndexContent(issues, StatusOptions)
                       /\ \A j \in 1..Len(issues) :
                            <<"issues", GenerateIssueFilename(issues[j])>> \in DOMAIN files']_vars

\* a pull of three issues has ended at the rejected write of the second
\* file: the first file is there, the second is not, no index was written
C31_Witness ==
    /\ lastRun.op = "pull"
    /\ lastRun.thrown = WriteFailed
    /\ lastRun.arg = {I1, I2, I3}
    /\ <<"issues", IssueFileName(I1)>> \in DOMAIN files
    /\ files[<<"issues", IssueFileName(I1)>>] = GenerateIssueContent(GitHubIssue(remote, I1))
    /\ <<"issues", IssueFileName(I2)>> \notin DOMAIN files
    /\ index = NoIndex

(***************************************************************************)
(* Claims about the fetch of the items                                     *)
(***************************************************************************)
\* the place of the last item of the n-th page of the project
PageEnd(n) == IF n * PageSize < Len(metaItems) THEN n * PageSize ELSE Len(metaItems)

\* the numbers of the items of the project, from place a to place b, that
\* carry an issue number and are in the iteration asked for, in order
RECURSIVE KeptNumbers(_, _)
KeptNumbers(a, b) ==
    IF a > b THEN <<>>
    ELSE (IF /\ metaItems[a].content.present
             /\ metaItems[a].content.number > 0
             /\ metaFilterId # ""
                    => \E v \in 1..Len(metaItems[a].fieldValues) :
                            metaItems[a].fieldValues[v].iterationId = metaFilterId
            THEN <<metaItems[a].content.number>> ELSE <<>>)
         \o KeptNumbers(a + 1, b)

\* C32: the first items request carries no cursor and the n-th the cursor
\* that ended page n-1, which reported a further page; what has been
\* collected after n requests is what pages 1..n hold of issues to keep,
\* in order, each once; the fetch returns at the first page that reports no
\* further page, having asked for every page once, and goes on before.
C32_PagesInSequence ==
    LET n == Len(metaRequests)
    IN /\ \A j \in 1..n :
            /\ metaRequests[j] = PageEnd(j - 1)
            /\ j > 1 => PageEnd(j - 1) < Len(metaItems)
       /\ mpc \in {"paging", "issues"}
            => /\ metaCursor = PageEnd(n)
               /\ [j \in 1..Len(metaIssues) |-> metaIssues[j].number] = KeptNumbers(1, PageEnd(n))
       /\ mpc = "issues" => n >= 1 /\ PageEnd(n) = Len(metaItems)
       /\ (mpc = "paging" /\ n >= 1) => PageEnd(n) < Len(metaItems)

\* a board of six items, three of them issues, has been fetched in several
\* requests, the first with no cursor, the second with the cursor that
\* ended the first page
C32_Witness ==
    /\ mpc = "issues"
    /\ Len(metaItems) = 6
    /\ Len(metaRequests) >= 2
    /\ metaRequests[1] = 0
    /\ metaRequests[2] = PageSize
    /\ metaFilterId = ""
    /\ Len(metaIssues) = 3

(***************************************************************************)
(* Claims about the text of a file                                         *)
(***************************************************************************)
\* C33: for a content with a header block, extractBody returns the text
\* behind the delimiter that closes the block, the separating newlines (at
\* most two) left out, and nothing of the header; it returns the content
\* itself only for a content without header block; for the content
\* generated for an issue it returns the body the content was generated
\* with.
C33_BodyIsTextAfterHeader ==
    tpc = "read"
        => /\ ClosingPlaces(textContent) # {}
                => LET close == Least(ClosingPlaces(textContent)) + 1
                   IN \E from \in (close + 1)..(close + 3) :
                        /\ from <= Len(textContent) + 1
                        /\ \A j \in (close + 1)..(from - 1) : textContent[j] = "\n"
                        /\ textBody = SubSeq(textContent, from, Len(textContent))
           /\ ClosingPlaces(textContent) = {} => textBody = textContent
           /\ \A b \in TextsOf(MaxTextBody) :
                textContent = GenerateText(b) => textBody = b

(***************************************************************************)
(* Claims about the paths of one pull                                      *)
(***************************************************************************)
\* C34: a pull whose writes all went through has written the issues it
\* synced to pairwise distinct paths, and the file at the path of every one
\* of them holds the content generated from that issue: none was overwritten
\* by another issue of the same pull.
C34_DistinctPathsWithinPull ==
    [][(/\ lastRun'.op = "pull"
        /\ lastRun'.thrown \in {"", DestinationExists})
            => LET issues == SyncedIssues(lastRun'.arg)
                   path(j) == <<"issues", GenerateIssueFilename(issues[j])>>
               IN \A j, k \in 1..Len(issues) :
                    /\ j # k => path(j) # path(k)
                    /\ path(j) \in DOMAIN files'
                    /\ files'[path(j)] = GenerateIssueContent(issues[j])]_vars

(***************************************************************************)
(* Claims about the identity archival decides on                           *)
(***************************************************************************)
\* C35: when cleanupOldIssues ran archiveOldIssues to its end, every managed
\* file of the issues folder whose owner/repository and item number are
\* those of no fetched issue has left the issues folder, also when a fetched
\* issue of another repository carries the same item number.
C35_ArchivesByFullIdentity ==
    [][\A fetched \in Iterations :
        (CleanupOldIssues(fetched) /\ lastRun'.thrown = "")
            => \A p \in DOMAIN files :
                (/\ p[1] = "issues"
                 /\ IsManaged(files[p])
                 /\ IssuesNamed(ParseFrontmatter(files[p])) \cap fetched = {})
                    => /\ p \notin DOMAIN files'
                       /\ <<"archive", p[2]>> \in DOMAIN files']_vars

(***************************************************************************)
(* Claims about archiving a second time                                    *)
(***************************************************************************)
\* C36: after any history, archiveOldIssues, run by cleanupOldIssues or at
\* the end of a pull that archives, runs to its end: it throws nothing,
\* every managed file of the issues folder whose number is not among the
\* fetched ones has left the issues folder, also a file whose earlier copy
\* is in the archive already, and every file that was in the archive is
\* still there with its content.
C36_ArchivesAgain ==
    [][\A fetched \in Iterations :
        LET issues == SyncedIssues(fetched)
            kept == \A q \in DOMAIN files :
                        q[1] = "archive" => q \in DOMAIN files' /\ files'[q] = files[q]
        IN /\ CleanupOldIssues(fetched) =>
                /\ lastRun'.thrown = ""
                /\ \A p \in OldIssueFiles(TheVault,
                            CurrentIssueNumbers(FetchProjectIssues(remote, fetched))) :
                        p \notin DOMAIN files'
                /\ kept
           /\ SyncProject(fetched, TRUE) =>
                /\ lastRun'.thrown = ""
                /\ \A p \in OldIssueFiles(WriteIssueFiles(TheVault, issues),
                                          CurrentIssueNumbers(issues)) :
                        p \notin DOMAIN files'
                /\ kept]_vars

(***************************************************************************)
(* Claims about the counts and the failures of processImagesOnPush         *)
(***************************************************************************)
\* the matches of a body that findImageFile resolves to no vault file
Unresolved(body) ==
    { i \in 1..Len(ImageMatches(body)) : FindImageFile(ImageMatches(body)[i].path) = NoFile }

\* C37: with a hosting repository configured, the uploaded count a call of
\* processImagesOnPush returns is the number of PUT calls issued during the
\* call, and the skipped count is the number of local references of the
\* body that resolve to no vault file.
C37_CountsMatchCalls ==
    [][(hosting /\ pushes' = pushes + 1)
        => /\ uploadedCount' = Len(puts') - Len(puts)
           /\ skippedCount' = Cardinality(Unresolved(imgBody))]_vars

\* no file of the vault is at path p, at p with a common extension added,
\* or named as the last segment of p, with or without its extension
NotInVault(p) ==
    LET filename == IF AfterLast(p, "/") = <<>> THEN p ELSE AfterLast(p, "/")
    IN \A i \in 1..Len(VaultImages) :
        /\ VaultImages[i].path # p
        /\ \A e \in 1..Len(ImageExtensions) :
                VaultImages[i].path # p \o <<".", ImageExtensions[e]>>
        /\ FileName(VaultImages[i]) # filename
        /\ FileBasename(VaultImages[i]) # filename

\* the local references of a content that no vault file answers, in order
UnresolvedRefs(content) ==
    SelectSeq(content,
        LAMBDA t : /\ t.k = "wiki" \/ (t.k = "md" /\ IsLocalPath(t.path))
                   /\ NotInVault(t.path))

\* C38: a call of processImagesOnPush with a hosting repository returns,
\* whatever the network does; the references of the body that no vault file
\* answers are in the returned body as they were, each counted as skipped;
\* probes and PUT calls are issued for the other references only; and a
\* body whose references are all unresolved comes back unchanged, with
\* nothing uploaded, no probe and no PUT.
C38_UnresolvedLeftAlone ==
    [][(hosting /\ pushes' = pushes + 1)
        => LET n == Len(ImageMatches(imgBody))
               u == Len(UnresolvedRefs(imgBody))
           IN /\ ipc' = "pushed"
              /\ UnresolvedRefs(imgContent') = UnresolvedRefs(imgBody)
              /\ skippedCount' >= u
              /\ uploadedCount' <= n - u
              /\ probes' - probes <= n - u
              /\ Len(puts') - Len(puts) <= n - u
              /\ u = n => /\ imgContent' = imgBody
                          /\ skippedCount' = n
                          /\ UNCHANGED <<probes, puts, assets>>]_vars

\* a body with an unresolvable and a resolvable embed was pushed: the first
\* is skipped and in place, the second uploaded after one probe
C38_Witness ==
    /\ hosting
    /\ ipc = "pushed"
    /\ pushes = 1
    /\ imgBody = <<Wiki(pMissing), Wiki(pA)>>
    /\ imgContent[1] = Wiki(pMissing)
    /\ Len(imgContent) = 4
    /\ skippedCount = 1
    /\ uploadedCount = 1
    /\ probes = 1
    /\ Len(puts) = 1

(***************************************************************************)
(* Claims about a failure at one image of a push (checked under SpecPush)  *)
(***************************************************************************)
\* the blob the k-th match of m is stored as
BlobName(m, k) == RemoteFilename(FindImageFile(m[k].path))

\* whether that blob is in the asset repository when the k-th match is
\* processed, every earlier match having gone through
BlobBefore(m, k, repo) ==
    \/ BlobName(m, k) \in repo
    \/ \E h \in 1..(k - 1) : ~NotInVault(m[h].path) /\ BlobName(m, h) = BlobName(m, k)

\* the matches at which the read, the probe or the PUT of the plan fails
FailedAt(m, nets, repo) ==
    { j \in 1..Len(m) :
        /\ ~NotInVault(m[j].path)
        /\ \/ nets[j] \in {"readFails", "probeFails"}
           \/ nets[j] = "putFails" /\ ~BlobBefore(m, j, repo) }

\* the matches for which no url is obtained: the read fails, the PUT is
\* rejected, or the probe fails and the PUT that follows is rejected because
\* the blob is there
NoUrlAt(m, nets, repo) ==
    { j \in 1..Len(m) :
        /\ ~NotInVault(m[j].path)
        /\ \/ nets[j] = "readFails"
           \/ nets[j] = "putFails" /\ ~BlobBefore(m, j, repo)
           \/ nets[j] = "probeFails" /\ BlobBefore(m, j, repo) }

MarkerCount(content) == Len(SelectSeq(content, LAMBDA t : t.k = "marker"))

\* a push of file p with a hosting repository, the network around its
\* images as nets says and the update of the issue going through, leaves
\* the references of `left` in the body sent and counts them and the
\* unresolved ones as skipped, replaces every other reference by a marker
\* pair, updates the issue and rewrites the file with its local body
PushSkips(p, nets, left) ==
    LET body == ExtractBody(files[p])
        m == ImageMatches(body)
        unresolved == { j \in 1..Len(m) : NotInVault(m[j].path) }
        i == CHOOSE x \in IssuesNamed(ParseFrontmatter(files[p])) : TRUE
        sent == remote'[i].body
    IN /\ lastRun'.thrown = ""
       /\ "update" \in lastRun'.calls
       /\ updates' = Append(updates, p)
       /\ files'[p].body = body
       /\ \A j \in left : \E h \in 1..Len(sent) : sent[h] = m[j]
       /\ ProcessImagesOnPush(body, hosting, nets, assets).skippedCount
                = Cardinality(left \cup unresolved)
       /\ MarkerCount(sent) - MarkerCount(body) = Len(m) - Cardinality(left \cup unresolved)

\* the pushes the claims are about
ImagePush(p, nets) ==
    /\ hosting
    /\ PushError(files[p]) = ""
    /\ HasLocalImages(ExtractBody(files[p]))
    /\ PushCurrentIssue(p, nets, "ok")

\* C39 as stated: a failure of the read, the probe or the PUT at one image
\* never aborts the push; that reference is untouched in the body sent and
\* counted as skipped, the others are processed, the issue is updated and
\* the file rewritten.
C39_FailedImageIsSkipped ==
    [][\A p \in DOMAIN files :
        \A nets \in NetPlans(Len(ImageMatches(ExtractBody(files[p])))) :
            ImagePush(p, nets)
                => PushSkips(p, nets,
                        FailedAt(ImageMatches(ExtractBody(files[p])), nets, assets))]_vars

\* C39 as amended: a failure of the read or of the PUT at one image never
\* aborts the push, and that reference is untouched in the body sent and
\* counted as skipped; a failed probe does not abort the push either, it
\* counts as "not there" and the PUT is issued, so that the reference is
\* skipped only when that PUT is rejected and is uploaded otherwise; the
\* other references are processed, the issue is updated and the file
\* rewritten.
C39_NoUrlIsSkipped ==
    [][\A p \in DOMAIN files :
        \A nets \in NetPlans(Len(ImageMatches(ExtractBody(files[p])))) :
            ImagePush(p, nets)
                => LET m == ImageMatches(ExtractBody(files[p]))
                   IN /\ PushSkips(p, nets, NoUrlAt(m, nets, assets))
                      /\ \A j \in FailedAt(m, nets, assets) \ NoUrlAt(m, nets, assets) :
                            /\ nets[j] = "probeFails"
                            /\ BlobName(m, j) \in assets'
                            /\ "put" \in lastRun'.calls]_vars

\* a push of a body with two resolvable embeds went through although the
\* first image failed: the first embed is in the body sent as it was, the
\* second is a marker pair, and its blob is the only one uploaded
C39_Witness ==
    /\ hosting
    /\ lastRun.op = "push"
    /\ lastRun.thrown = ""
    /\ updates = << <<"issues", IssueFileName(I1)>> >>
    /\ files[<<"issues", IssueFileName(I1)>>].body = <<Wiki(pA), Wiki(pJpg)>>
    /\ Len(remote[I1].body) = 4
    /\ remote[I1].body[1] = Wiki(pA)
    /\ remote[I1].body[2] = Marker(pJpg)
    /\ assets = {RemoteFilename(FileAt(pJpg))}

====
